---- MODULE Spec2Model ----
(***************************************************************************)
(* Model of the Sahay appointment functions (Netlify handlers over a       *)
(* Supabase store): create-booking, reschedule-booking, cancel-booking and *)
(* the retry helper queryWithRetry.  Every store call of a handler is one  *)
(* atomic step; concurrent requests interleave between store calls.        *)
(***************************************************************************)
EXTENDS Integers, Sequences, FiniteSets, TLC

(***************************************************************************)
(* Bounds of the model.                                                    *)
(***************************************************************************)
\* rows the appointments table may hold (inserts beyond it are not explored)
MaxAppts == 2
\* requests served in one behaviour
MaxRequests == 3
\* working hours given to slot generation run from 09:00 up to this hour
LastHour == 11

(***************************************************************************)
(* Strings are sequences of one-character strings.                         *)
(***************************************************************************)
\* JavaScript undefined (a field absent from the request body)
UNDEF == <<"undefined">>

\* String.prototype.toLowerCase on one character (ASCII letters)
UpperLetters ==
  <<"A", "B", "C", "D", "E", "F", "G", "H", "I", "J", "K", "L", "M",
    "N", "O", "P", "Q", "R", "S", "T", "U", "V", "W", "X", "Y", "Z">>

LowerLetters ==
  <<"a", "b", "c", "d", "e", "f", "g", "h", "i", "j", "k", "l", "m",
    "n", "o", "p", "q", "r", "s", "t", "u", "v", "w", "x", "y", "z">>

LowerOf ==
  [c \in {UpperLetters[i] : i \in 1..26} |->
     LowerLetters[CHOOSE i \in 1..26 : UpperLetters[i] = c]]

LowerChar(c) == IF c \in DOMAIN LowerOf THEN LowerOf[c] ELSE c

Lower(s) == [i \in 1..Len(s) |-> LowerChar(s[i])]

\* String.prototype.includes
Includes(s, sub) ==
  \E i \in 0..(Len(s) - Len(sub)) : SubSeq(s, i + 1, i + Len(sub)) = sub

\* Postgres  column ILIKE '%frag%'  for a fragment without wildcards
ILikeContains(col, frag) == Includes(Lower(col), Lower(frag))

\* String.prototype.trim (the only white space in the inputs is the blank)
RECURSIVE TrimLeft(_)
TrimLeft(s) ==
  IF s # <<>> /\ Head(s) = " " THEN TrimLeft(Tail(s)) ELSE s

RECURSIVE TrimRight(_)
TrimRight(s) ==
  IF s # <<>> /\ s[Len(s)] = " " THEN TrimRight(SubSeq(s, 1, Len(s) - 1)) ELSE s

Trim(s) == TrimRight(TrimLeft(s))

\* s.replace(/Dr\./gi, '') : every occurrence of "dr." in any case is removed
RECURSIVE ReplaceDr(_)
ReplaceDr(s) ==
  IF s = <<>> THEN <<>>
  ELSE IF Len(s) >= 3 /\ Lower(SubSeq(s, 1, 3)) = <<"d", "r", ".">>
       THEN ReplaceDr(SubSeq(s, 4, Len(s)))
       ELSE <<Head(s)>> \o ReplaceDr(Tail(s))

\* s.split(' ')[0] : the text before the first blank
RECURSIVE FirstWord(_)
FirstWord(s) ==
  IF s = <<>> \/ Head(s) = " " THEN <<>> ELSE <<Head(s)>> \o FirstWord(Tail(s))

\* String.prototype.split(sep) for a one-character separator
RECURSIVE Split(_, _)
Split(s, sep) ==
  IF \A i \in 1..Len(s) : s[i] # sep THEN <<s>>
  ELSE LET k == CHOOSE i \in 1..Len(s) : s[i] = sep /\ \A j \in 1..(i - 1) : s[j] # sep
       IN  <<SubSeq(s, 1, k - 1)>> \o Split(SubSeq(s, k + 1, Len(s)), sep)

\* faulty variant of PadStart2: nothing is added
PadStart2_Keep(s) == s

\* String.prototype.padStart(2, '0')
PadStart2(s) ==
  IF Len(s) >= 2 THEN s ELSE IF Len(s) = 1 THEN <<"0">> \o s ELSE <<"0", "0">>

(***************************************************************************)
(* Numbers and calendar dates (JavaScript Date, time zone of the host).    *)
(***************************************************************************)
Digits == <<"0", "1", "2", "3", "4", "5", "6", "7", "8", "9">>

IsDigit(c) == \E i \in 1..10 : Digits[i] = c

DigitVal(c) == (CHOOSE i \in 1..10 : Digits[i] = c) - 1

\* the regular expression \d{n} ... anchored: only digits
AllDigits(s) == \A i \in 1..Len(s) : IsDigit(s[i])

\* value of a string of digits
RECURSIVE NumVal(_)
NumVal(s) ==
  IF s = <<>> THEN 0 ELSE 10 * NumVal(SubSeq(s, 1, Len(s) - 1)) + DigitVal(s[Len(s)])

\* the longest prefix of s made of digits
RECURSIVE DigitPrefix(_)
DigitPrefix(s) ==
  IF s = <<>> \/ ~IsDigit(Head(s)) THEN <<>> ELSE <<Head(s)>> \o DigitPrefix(Tail(s))

\* parseInt(s): leading blanks, an optional sign, then digits; NaN without a digit
NaN == "NaN"

\* the digits parseInt(s) reads
ParseIntDigits(s) ==
  LET t == TrimLeft(s)
  IN  DigitPrefix(IF t # <<>> /\ Head(t) \in {"-", "+"} THEN Tail(t) ELSE t)

ParseInt(s) ==
  LET t == TrimLeft(s)
      neg == t # <<>> /\ Head(t) = "-"
      ds == ParseIntDigits(s)
  IN  IF ds = <<>> THEN NaN ELSE IF neg THEN 0 - NumVal(ds) ELSE NumVal(ds)

IsLeap(y) == ((y % 4) = 0 /\ (y % 100) # 0) \/ (y % 400) = 0

\* m is 1..12
DaysInMonth(y, m) ==
  IF m = 2 THEN (IF IsLeap(y) THEN 29 ELSE 28)
  ELSE IF m \in {4, 6, 9, 11} THEN 30 ELSE 31

\* new Date(y, m0, d): month index m0 (0 = January) and day d overflow into the
\* neighbouring months and years
RECURSIVE MakeDate(_, _, _)
MakeDate(y, m0, d) ==
  IF m0 < 0 THEN MakeDate(y - 1, m0 + 12, d)
  ELSE IF m0 > 11 THEN MakeDate(y + 1, m0 - 12, d)
  ELSE IF d < 1 THEN
         (IF m0 = 0 THEN MakeDate(y - 1, 11, d + 31)
          ELSE MakeDate(y, m0 - 1, d + DaysInMonth(y, m0)))
  ELSE IF d > DaysInMonth(y, m0 + 1) THEN MakeDate(y, m0 + 1, d - DaysInMonth(y, m0 + 1))
  ELSE [y |-> y, m |-> m0 + 1, d |-> d]

Pad2(n) == <<Digits[((n \div 10) % 10) + 1], Digits[(n % 10) + 1]>>

Year4(n) == Pad2(n \div 100) \o Pad2(n % 100)

\* Date.prototype.toLocaleDateString('en-CA') : YYYY-MM-DD
ToLocaleDateStringCA(dt) == Year4(dt.y) \o <<"-">> \o Pad2(dt.m) \o <<"-">> \o Pad2(dt.d)

\* the regular expression /^\d{4}-\d{2}-\d{2}$/
IsIsoShape(s) ==
  /\ Len(s) = 10
  /\ s[5] = "-" /\ s[8] = "-"
  /\ \A i \in {1, 2, 3, 4, 6, 7, 9, 10} : IsDigit(s[i])

\* new Date() of the run: the host's current local date
Today == [y |-> 2026, m |-> 1, d |-> 23]

(***************************************************************************)
(* smartDateParser (rescheduleAppointment.ts); null is NULLDATE            *)
(***************************************************************************)
NULLDATE == <<"null">>

InvalidDateText == <<"I", "n", "v", "a", "l", "i", "d", " ", "D", "a", "t", "e">>

smartDateParser(dateInput) ==
  IF dateInput = UNDEF \/ dateInput = <<>> THEN NULLDATE
  ELSE
  LET input == Lower(Trim(dateInput))
      parts == Split(input, "/")
  IN  IF input = <<"t", "o", "m", "o", "r", "r", "o", "w">>
        THEN ToLocaleDateStringCA(MakeDate(Today.y, Today.m - 1, Today.d + 1))
      ELSE IF input = <<"t", "o", "d", "a", "y">>
        THEN ToLocaleDateStringCA(Today)
      ELSE IF Len(input) \in {1, 2} /\ AllDigits(input)
        THEN ToLocaleDateStringCA(MakeDate(Today.y, Today.m - 1, NumVal(input)))
      ELSE IF Includes(input, <<"/">>) /\ Len(parts) = 3
        THEN LET day == PadStart2(parts[1])
                 month == PadStart2(parts[2])
                 year == IF Len(parts[3]) = 2 THEN <<"2", "0">> \o parts[3] ELSE parts[3]
             IN  year \o <<"-">> \o month \o <<"-">> \o day
      ELSE IF Includes(input, <<"/">>) /\ Len(parts) = 2
        THEN LET dd == ParseInt(parts[1])
                 mm == ParseInt(parts[2])
             IN  IF ParseIntDigits(parts[1]) = <<>> \/ ParseIntDigits(parts[2]) = <<>>
                   THEN InvalidDateText
                 ELSE ToLocaleDateStringCA(MakeDate(Today.y, mm - 1, dd))
      ELSE IF IsIsoShape(input) THEN input
      ELSE NULLDATE

(***************************************************************************)
(* normalizeDate (cancel handler, unnamed/part_008)                        *)
(***************************************************************************)
\* !isNaN(Date.parse(iso)) for a string of the shape YYYY-MM-DD: the engine
\* accepts months 01..12 and days 01..31 (a day past the month's end rolls over)
DateParseOk(iso) ==
  /\ IsIsoShape(iso)
  /\ NumVal(SubSeq(iso, 6, 7)) \in 1..12
  /\ NumVal(SubSeq(iso, 9, 10)) \in 1..31

normalizeDate(dateStr) ==
  IF dateStr = UNDEF \/ dateStr = <<>> THEN [valid |-> FALSE, date |-> NULLDATE]
  ELSE
  LET d == Lower(Trim(dateStr))
      parts == Split(d, "/")
      year == IF Len(parts[3]) = 2 THEN <<"2", "0">> \o parts[3] ELSE parts[3]
      iso == year \o <<"-">> \o PadStart2(parts[2]) \o <<"-">> \o PadStart2(parts[1])
  IN  IF d = <<"t", "o", "m", "o", "r", "r", "o", "w">>
        THEN [valid |-> TRUE,
              date |-> ToLocaleDateStringCA(MakeDate(Today.y, Today.m - 1, Today.d + 1))]
      ELSE IF Includes(d, <<"/">>) /\ Len(parts) = 3 /\ DateParseOk(iso)
        THEN [valid |-> TRUE, date |-> iso]
      ELSE IF IsIsoShape(d) /\ DateParseOk(d)
        THEN [valid |-> TRUE, date |-> d]
      ELSE [valid |-> FALSE, date |-> NULLDATE]

(***************************************************************************)
(* The doctors table (read-only for these handlers).                       *)
(***************************************************************************)
DoctorRows ==
  << [id |-> 1, name |-> <<"A", "d", "i", " ", "R", "a", "o">>,
      specialty |-> <<"C", "a", "r", "d", "i", "o", "l", "o", "g", "y">>,
      working_hours_start |-> <<"0", "9", ":", "0", "0">>,
      working_hours_end |-> <<"1", "0", ":", "0", "0">>],
     [id |-> 2, name |-> <<"R", "a", "v", "i">>,
      specialty |-> <<"S", "k", "i", "n">>,
      working_hours_start |-> <<"1", "1", ":", "3", "0">>,
      working_hours_end |-> <<"1", "7", ":", "3", "0">>] >>

\* .from('doctors').ilike('name', '%frag%') : the ids of the matching rows
DoctorsILike(frag) ==
  {DoctorRows[i].id : i \in {j \in 1..Len(DoctorRows) : ILikeContains(DoctorRows[j].name, frag)}}

\* t is a subsequence of s : the pattern %c1%c2%...%cn% of the cancel handler
RECURSIVE IsSubsequence(_, _)
IsSubsequence(t, s) ==
  IF t = <<>> THEN TRUE
  ELSE IF s = <<>> THEN FALSE
  ELSE IF Head(t) = Head(s) THEN IsSubsequence(Tail(t), Tail(s))
  ELSE IsSubsequence(t, Tail(s))

\* s.replace(/\./g, '').replace(/\s+/g, '') : dots and blanks removed
RECURSIVE StripDotsAndBlanks(_)
StripDotsAndBlanks(s) ==
  IF s = <<>> THEN <<>>
  ELSE IF Head(s) \in {".", " "} THEN StripDotsAndBlanks(Tail(s))
  ELSE <<Head(s)>> \o StripDotsAndBlanks(Tail(s))

\* .ilike('name', `%${cleanSearch.split('').join('%')}%`)
DoctorsILikeSpread(cleanSearch) ==
  {DoctorRows[i].id : i \in {j \in 1..Len(DoctorRows) :
       IsSubsequence(Lower(cleanSearch), Lower(DoctorRows[j].name))}}

(***************************************************************************)
(* Request inputs explored by the model.                                   *)
(***************************************************************************)
D24 == <<"2", "0", "2", "6", "-", "0", "1", "-", "2", "4">>
Slash25 == <<"2", "5", "/", "1", "/", "2", "6">>
T0900 == <<"0", "9", ":", "0", "0">>
T0930 == <<"0", "9", ":", "3", "0">>
T9am == <<"9", "a", "m">>
NameAdi == <<"A", "d", "i">>
NameDrRavi == <<"D", "r", ".", " ", "R", "a", "v", "i">>
\* a fragment of both doctors' names
NameRa == <<"R", "a">>
PatSam == <<"S", "a", "m">>
PatSamy == <<"S", "a", "m", "y">>
Phone10 == <<"9", "8", "7", "6", "5", "4", "3", "2", "1", "0">>

\* concurrent handler invocations
Procs == {"h1", "h2"}

NoReq ==
  [kind |-> "none", doctorName |-> UNDEF, patientName |-> UNDEF, date |-> UNDEF,
   time |-> UNDEF, phone |-> UNDEF, newDate |-> UNDEF, newTime |-> UNDEF]

BookRequests ==
  [kind : {"book"}, doctorName : {NameAdi}, patientName : {PatSam, PatSamy},
   date : {D24}, time : {T0900, T0930}, phone : {Phone10},
   newDate : {UNDEF}, newTime : {UNDEF}]
  \cup {[NoReq EXCEPT !.kind = "book", !.doctorName = NameDrRavi, !.patientName = PatSam,
                      !.date = D24, !.time = T0900, !.phone = Phone10],
        [NoReq EXCEPT !.kind = "book", !.doctorName = NameAdi, !.patientName = PatSam,
                      !.date = D24, !.time = T0900],
        [NoReq EXCEPT !.kind = "book", !.doctorName = NameRa, !.patientName = PatSam,
                      !.date = D24, !.time = T0900, !.phone = Phone10]}

RescheduleRequests ==
  [kind : {"rescheduleA", "rescheduleB"}, doctorName : {NameAdi},
   patientName : {PatSamy}, date : {D24}, time : {UNDEF},
   phone : {UNDEF}, newDate : {D24, Slash25, UNDEF}, newTime : {T0930, UNDEF}]
  \cup
  [kind : {"rescheduleA", "rescheduleB"}, doctorName : {NameAdi},
   patientName : {PatSamy}, date : {D24}, time : {UNDEF},
   phone : {UNDEF}, newDate : {Slash25}, newTime : {T9am}]
  \cup {[NoReq EXCEPT !.kind = "rescheduleA", !.patientName = PatSamy, !.date = D24,
                      !.newDate = Slash25, !.newTime = T0930],
        [NoReq EXCEPT !.kind = "rescheduleA", !.doctorName = NameAdi,
                      !.patientName = PatSamy, !.newDate = Slash25, !.newTime = T0930]}

CancelRequests ==
  [kind : {"cancel8", "cancelA"}, doctorName : {NameAdi},
   patientName : {PatSam, PatSamy}, date : {D24}, time : {UNDEF},
   phone : {UNDEF}, newDate : {UNDEF}, newTime : {UNDEF}]
  \cup
  [kind : {"cancel8", "cancelA"}, doctorName : {NameAdi},
   patientName : {PatSamy}, date : {Slash25, UNDEF}, time : {UNDEF},
   phone : {UNDEF}, newDate : {UNDEF}, newTime : {UNDEF}]

\* !x of JavaScript for a string field: absent or empty
Falsy(x) == x = UNDEF \/ x = <<>>

\* request r lacks an argument its capability requires
Lacks(r) ==
  \/ Falsy(r.doctorName) \/ Falsy(r.patientName) \/ Falsy(r.date)
  \/ r.kind = "book" /\ (Falsy(r.time) \/ Falsy(r.phone))

(***************************************************************************)
(* State.                                                                  *)
(***************************************************************************)
VARIABLES
  appts,      \* the appointments table: row i has id i
  pc,         \* per handler invocation: the store call it is about to make
  req,        \* per handler invocation: the parsed request body
  loc,        \* per handler invocation: its local variables
  resp,       \* per handler invocation: the response it returned last
  nreq,       \* requests received so far
  lastBooked, \* key of the create-booking that returned success in the last step
  rpc,        \* queryWithRetry: where the call stands
  attempt,    \* queryWithRetry: the loop variable
  tries,      \* queryWithRetry: the outcome of every invocation of query() so far
  waits,      \* queryWithRetry: the delays slept so far, in ms
  result,     \* queryWithRetry: what the call returned or threw
  gen,        \* slot generation: the working hours given and the slots produced
  spc,        \* list-availability: the store call the handler is about to make
  sreq,       \* list-availability: the parsed request body
  sdoctor,    \* list-availability: the id of the doctors row found
  sresp,      \* list-availability: the response returned last
  opc,        \* orchestrator: where the handler stands
  omsg,       \* orchestrator: aiMessage
  oresults,   \* orchestrator: toolResults
  olog,       \* orchestrator: the requests it has sent, in order
  oresp,      \* orchestrator: the response returned last
  calc,       \* a helper function applied alone: its input and what it returned
  det         \* find-provider: where the handler stands, its request, locals, response

\* the variables of the handlers and those of queryWithRetry
hvars == <<appts, pc, req, loc, resp, nreq, lastBooked>>
rvars == <<rpc, attempt, tries, waits, result>>
svars == <<spc, sreq, sdoctor, sresp>>
ovars == <<opc, omsg, oresults, olog, oresp>>
xvars == <<gen, svars, ovars, calc, det>>
vars == <<appts, pc, req, loc, resp, nreq, lastBooked, rpc, attempt, tries, waits, result,
          gen, spc, sreq, sdoctor, sresp, opc, omsg, oresults, olog, oresp, calc, det>>

\* a (doctor_id, appointment_date, appointment_time) key
Key(doctor, date, time) == [doctor |-> doctor, date |-> date, time |-> time]

NoKey == Key(0, NULLDATE, UNDEF)

\* locals of an invocation; alone: no other invocation has run since it began;
\* after: the key booked by the request that returned just before it began
NoLoc == [doctor |-> 0, existing |-> 0, oldDate |-> NULLDATE, newDate |-> NULLDATE,
          phone |-> UNDEF, alone |-> FALSE, after |-> NoKey]

NoResp == [kind |-> "none", statusCode |-> 0, fields |-> {}, success |-> FALSE,
           needsNewSlot |-> FALSE, error_type |-> "", tag |-> "none", cause |-> "",
           seq |-> FALSE, sms |-> "none", smsTo |-> UNDEF, lacks |-> FALSE]

\* a JSON response of handler kind: HTTP status, the body's keys and the values of
\* the keys read here.  Observations kept with it: tag, the return statement that
\* produced it; cause, the error behind it ("store": a store call failed, "rows":
\* several rows for maybeSingle, "type": a TypeError); seq, see Return; sms and
\* smsTo, the SMS request the handler made before it returned and its 'To';
\* lacks, the request it answers lacked a required argument
Response(kind, code, fields, success, tag) ==
  [kind |-> kind, statusCode |-> code, fields |-> fields, success |-> success,
   needsNewSlot |-> FALSE, error_type |-> "", tag |-> tag, cause |-> "", seq |-> FALSE,
   sms |-> "none", smsTo |-> UNDEF, lacks |-> FALSE]

Caused(r, storeErr) == [r EXCEPT !.cause = IF storeErr THEN "store" ELSE "rows"]

\* the error, if any, of a maybeSingle() select over rows
ErrCause(rows, storeErr) ==
  IF storeErr THEN "store" ELSE IF Cardinality(rows) > 1 THEN "rows" ELSE ""

\* list-availability: no request, no response
NoSlotsReq == [doctorName |-> UNDEF, date |-> UNDEF, timeOfDay |-> UNDEF, wellFormed |-> TRUE]

NoSlotsResp ==
  [statusCode |-> 0, success |-> FALSE, error_type |-> "", tag |-> "none",
   periods |-> <<>>, period |-> UNDEF, slots |-> <<>>, noSlots |-> FALSE,
   available |-> <<>>,
   cause |-> [ok |-> TRUE, value |-> "rows", error |-> [message |-> UNDEF, code |-> ""]]]

\* no slots generated yet
\* aiMessage: content (null is UNDEF) and tool_calls (absent, or the array)
NoMessage == [content |-> UNDEF, tool_calls |-> [present |-> FALSE, list |-> <<>>]]
NoReply == [statusCode |-> 0, tag |-> "none", reply |-> UNDEF]

\* find-provider at rest; data: the rows of the narrow search; searches: the
\* searches run for the request, in order; failed: the last of them failed
NoDet ==
  [pc |-> "idle", specialty |-> UNDEF, doctorName |-> UNDEF, data |-> {},
   searches |-> <<>>, failed |-> FALSE,
   resp |-> [statusCode |-> 0, success |-> FALSE, count |-> 0, doctors |-> {},
             error_type |-> "", tag |-> "none"]]

\* no helper applied yet
NoCalc == [fn |-> "none", of |-> "", input |-> UNDEF, output |-> UNDEF, again |-> UNDEF]

NoGen == [variant |-> "none", start |-> UNDEF, end |-> UNDEF, slots |-> <<>>]

\* nothing returned or thrown yet
NoOutcome == [ok |-> FALSE, value |-> "none", error |-> [message |-> UNDEF, code |-> ""]]

Init ==
  /\ appts = <<>>
  /\ pc = [p \in Procs |-> "idle"]
  /\ req = [p \in Procs |-> NoReq]
  /\ loc = [p \in Procs |-> NoLoc]
  /\ resp = [p \in Procs |-> NoResp]
  /\ nreq = 0
  /\ lastBooked = NoKey
  /\ rpc = "idle"
  /\ attempt = 0
  /\ tries = <<>>
  /\ waits = <<>>
  /\ result = NoOutcome
  /\ gen = NoGen
  /\ spc = "idle"
  /\ sreq = NoSlotsReq
  /\ sdoctor = 0
  /\ sresp = NoSlotsResp
  /\ opc = "idle"
  /\ omsg = NoMessage
  /\ oresults = <<>>
  /\ olog = <<>>
  /\ oresp = NoReply
  /\ calc = NoCalc
  /\ det = NoDet

InFlight(p) == pc[p] \notin {"idle", "done"}

\* p's locals become l; every other invocation has now seen another one run
SetLoc(p, l) ==
  loc' = [q \in Procs |-> IF q = p THEN l ELSE [loc[q] EXCEPT !.alone = FALSE]]

\* the request of p began right after a create-booking for p's own key returned
\* success, and no other invocation has run since
RanAfterSameKey(p) ==
  /\ req[p].kind = "book"
  /\ loc[p].alone
  /\ loc[p].after = Key(loc[p].doctor, req[p].date, req[p].time)

\* the handler returns: its response is recorded and the invocation ends
Return(p, r) ==
  /\ pc' = [pc EXCEPT ![p] = "done"]
  /\ resp' = [resp EXCEPT ![p] = [r EXCEPT !.seq = RanAfterSameKey(p),
                                          !.lacks = r.lacks \/ (req[p].kind # "none"
                                                                /\ Lacks(req[p]))]]
  /\ req' = [req EXCEPT ![p] = NoReq]
  /\ SetLoc(p, NoLoc)

\* the handler goes on to the store call at label l with locals lc
Goto(p, l, lc) ==
  /\ pc' = [pc EXCEPT ![p] = l]
  /\ SetLoc(p, lc)
  /\ UNCHANGED resp

\* .maybeSingle() on the rows a select matched: several rows are an error
MaybeSingle(rows, storeErr) ==
  IF storeErr \/ Cardinality(rows) > 1 THEN [data |-> 0, error |-> TRUE]
  ELSE IF rows = {} THEN [data |-> 0, error |-> FALSE]
  ELSE [data |-> CHOOSE i \in rows : TRUE, error |-> FALSE]

\* rows with status 'confirmed' at (doctor_id, appointment_date, appointment_time)
ConfirmedAt(doctor, date, time) ==
  {i \in 1..Len(appts) :
     /\ appts[i].doctor_id = doctor
     /\ appts[i].appointment_date = date
     /\ appts[i].appointment_time = time
     /\ appts[i].status = "confirmed"}

\* confirmed rows of a doctor on a date whose patient_name ILIKE '%frag%'
ConfirmedOfPatient(doctor, date, frag) ==
  {i \in 1..Len(appts) :
     /\ appts[i].doctor_id = doctor
     /\ appts[i].appointment_date = date
     /\ appts[i].status = "confirmed"
     /\ ILikeContains(appts[i].patient_name, frag)}

\* create-booking requests that may still insert a row
PendingBooks == {p \in Procs : pc[p] \in {"bookCheck", "bookInsert"}}

\* a handler invocation begins
Accept(p) ==
  /\ pc[p] \in {"idle", "done"}
  /\ nreq < MaxRequests
  /\ nreq' = nreq + 1
  /\ lastBooked' = NoKey

\* the locals of an invocation that begins now
FreshLoc(p) ==
  [NoLoc EXCEPT !.alone = \A q \in Procs \ {p} : ~InFlight(q), !.after = lastBooked]

(***************************************************************************)
(* create-booking: bookAppointment.ts, the handler of lines 206-370.       *)
(***************************************************************************)
\* phone.trim(), then +91 for ten characters, else a leading + when absent
FormatPhone(phone) ==
  LET t == Trim(phone)
  IN  IF Len(t) = 10 THEN <<"+", "9", "1">> \o t
      ELSE IF t = <<>> \/ Head(t) # "+" THEN <<"+">> \o t
      ELSE t

\* the doctors that matchingDoctors.find(d => d.name.toLowerCase().includes(
\* searchName.toLowerCase())) can return: the first such row of the result, whose
\* order the query leaves open
StrictMatches(matchingDoctors, searchName) ==
  {d \in matchingDoctors :
     \E j \in 1..Len(DoctorRows) :
       DoctorRows[j].id = d /\ Includes(Lower(DoctorRows[j].name), Lower(searchName))}

\* validation, phone formatting and the doctor lookup (the doctors table is static)
BookStart(p) ==
  \E r \in BookRequests, storeErr \in BOOLEAN :
    /\ Accept(p)
    /\ Len(appts) + Cardinality(PendingBooks) < MaxAppts
    /\ UNCHANGED <<appts, rvars, xvars>>
    /\ IF Falsy(r.doctorName) \/ Falsy(r.patientName) \/ Falsy(r.date)
          \/ Falsy(r.time) \/ Falsy(r.phone)
       THEN Return(p, [Response("book", 400, {"success", "message"}, FALSE, "missing")
                         EXCEPT !.lacks = TRUE])
       ELSE LET searchName == Trim(ReplaceDr(r.doctorName))
                matchingDoctors == DoctorsILike(searchName)
            IN  IF storeErr \/ matchingDoctors = {}
                THEN Return(p, [Response("book", 404, {"success", "message"}, FALSE,
                                         "doctor_not_found")
                                  EXCEPT !.cause = IF storeErr THEN "store" ELSE ""])
                ELSE IF Cardinality(matchingDoctors) > 1
                        /\ StrictMatches(matchingDoctors, searchName) = {}
                THEN Return(p, Response("book", 400, {"success", "message"}, FALSE,
                                        "ambiguous"))
                ELSE \E d \in IF Cardinality(matchingDoctors) > 1
                               THEN StrictMatches(matchingDoctors, searchName)
                               ELSE matchingDoctors :
                       /\ Goto(p, "bookCheck",
                               [FreshLoc(p) EXCEPT !.doctor = d,
                                                   !.phone = FormatPhone(r.phone)])
                       /\ req' = [req EXCEPT ![p] = r]

\* faulty variant of BookCheck: the branch returning 409 is missing
BookCheck_NoConflictBranch(p) ==
  /\ pc[p] = "bookCheck"
  /\ \E storeErr \in BOOLEAN :
       LET res == MaybeSingle(ConfirmedAt(loc[p].doctor, req[p].date, req[p].time),
                              storeErr)
       IN  IF res.error
           THEN Return(p, Caused(Response("book", 500, {"success", "message"}, FALSE, "db_error"),
                                 storeErr))
           ELSE Goto(p, "bookInsert", loc[p]) /\ UNCHANGED req
  /\ lastBooked' = NoKey
  /\ UNCHANGED <<appts, nreq, rvars, xvars>>

\* faulty variant of BookCheck: the filter on status 'confirmed' is missing
BookCheck_AnyStatus(p) ==
  /\ pc[p] = "bookCheck"
  /\ \E storeErr \in BOOLEAN :
       LET res == MaybeSingle({i \in 1..Len(appts) :
                                 /\ appts[i].doctor_id = loc[p].doctor
                                 /\ appts[i].appointment_date = req[p].date
                                 /\ appts[i].appointment_time = req[p].time},
                              storeErr)
       IN  IF res.error
           THEN Return(p, Caused(Response("book", 500, {"success", "message"}, FALSE, "db_error"),
                                 storeErr))
           ELSE IF res.data # 0
           THEN Return(p, Response("book", 409, {"success", "message", "instruction"}, FALSE,
                                   "conflict"))
           ELSE Goto(p, "bookInsert", loc[p]) /\ UNCHANGED req
  /\ lastBooked' = NoKey
  /\ UNCHANGED <<appts, nreq, rvars, xvars>>

\* the existence check: select ... eq status 'confirmed' ... maybeSingle()
BookCheck(p) ==
  /\ pc[p] = "bookCheck"
  /\ \E storeErr \in BOOLEAN :
       LET res == MaybeSingle(ConfirmedAt(loc[p].doctor, req[p].date, req[p].time),
                              storeErr)
       IN  IF res.error
           THEN Return(p, Caused(Response("book", 500, {"success", "message"}, FALSE, "db_error"),
                                 storeErr))
           ELSE IF res.data # 0
           THEN Return(p, Response("book", 409, {"success", "message", "instruction"}, FALSE,
                                   "conflict"))
           ELSE Goto(p, "bookInsert", loc[p]) /\ UNCHANGED req
  /\ lastBooked' = NoKey
  /\ UNCHANGED <<appts, nreq, rvars, xvars>>

\* the row a create-booking request inserts
NewRow(p) ==
  [doctor_id |-> loc[p].doctor, patient_name |-> req[p].patientName,
   appointment_date |-> req[p].date, appointment_time |-> req[p].time,
   phone |-> loc[p].phone, status |-> "confirmed", updated_at |-> 0]

\* what the SMS block of the handler does: "skipped" without the three TWILIO
\* settings, "sent" when fetch resolves, "failed" when fetch throws
SmsOutcomes == {"skipped", "sent", "failed"}

\* faulty variant of BookInsert: the SMS request is not inside a try block, so
\* its exception reaches the handler's catch
BookInsert_SmsUncaught(p) ==
  /\ pc[p] = "bookInsert"
  /\ \E storeErr \in BOOLEAN, sms \in SmsOutcomes :
       IF storeErr
       THEN /\ Return(p, Caused(Response("book", 500, {"success", "message"}, FALSE, "db_error"),
                                TRUE))
            /\ lastBooked' = NoKey
            /\ UNCHANGED appts
       ELSE /\ appts' = Append(appts, NewRow(p))
            /\ lastBooked' = IF loc[p].alone
                             THEN Key(loc[p].doctor, req[p].date, req[p].time)
                             ELSE NoKey
            /\ Return(p, [(IF sms = "failed"
                            THEN Response("book", 500, {"success", "message"}, FALSE,
                                          "db_error")
                            ELSE Response("book", 200, {"success", "message", "bookingSummary",
                                                        "instruction"}, TRUE, "booked"))
                            EXCEPT !.sms = sms,
                                   !.smsTo = IF sms = "skipped" THEN UNDEF ELSE loc[p].phone])
  /\ UNCHANGED <<nreq, rvars, xvars>>

\* the insert, then the SMS (its failure is caught), then the success response
BookInsert(p) ==
  /\ pc[p] = "bookInsert"
  /\ \E storeErr \in BOOLEAN, sms \in SmsOutcomes :
       IF storeErr
       THEN /\ Return(p, Caused(Response("book", 500, {"success", "message"}, FALSE, "db_error"),
                                TRUE))
            /\ lastBooked' = NoKey
            /\ UNCHANGED appts
       ELSE /\ appts' = Append(appts, NewRow(p))
            /\ lastBooked' = IF loc[p].alone
                             THEN Key(loc[p].doctor, req[p].date, req[p].time)
                             ELSE NoKey
            /\ Return(p, [Response("book", 200, {"success", "message", "bookingSummary",
                                                 "instruction"}, TRUE, "booked")
                            EXCEPT !.sms = sms,
                                   !.smsTo = IF sms = "skipped" THEN UNDEF ELSE loc[p].phone])
  /\ UNCHANGED <<nreq, rvars, xvars>>

(***************************************************************************)
(* reschedule-booking: rescheduleAppointment.ts; kind rescheduleA is the   *)
(* handler of lines 54-172, rescheduleB the one of lines 493-605.          *)
(***************************************************************************)
\* the JSON body of every failure of this handler (HTTP 200, success false)
ReschedFail(kind, tag) == Response(kind, 200, {"success", "message"}, FALSE, tag)

\* doctor lookup (limit 1, the error is not read) and date parsing
ReschedStart(p) ==
  \E r \in RescheduleRequests, storeErr \in BOOLEAN :
    /\ Accept(p)
    /\ UNCHANGED <<appts, rvars, xvars>>
    /\ IF r.doctorName = UNDEF
       THEN Return(p, [ReschedFail(r.kind, "exception") EXCEPT !.cause = "type",
                                                                !.lacks = TRUE])
       ELSE LET cleanDocName == ReplaceDr(FirstWord(r.doctorName))
                doctors == IF storeErr THEN {} ELSE DoctorsILike(cleanDocName)
                resolvedOldDate == smartDateParser(r.date)
                resolvedNewDate == smartDateParser(r.newDate)
            IN  IF doctors = {}
                THEN Return(p, [ReschedFail(r.kind, "doctor_not_found")
                                  EXCEPT !.cause = IF storeErr THEN "store" ELSE "",
                                         !.lacks = Lacks(r)])
                ELSE IF resolvedOldDate = NULLDATE
                THEN Return(p, [ReschedFail(r.kind, "bad_old_date")
                                  EXCEPT !.lacks = Lacks(r)])
                ELSE \E d \in doctors :
                       /\ Goto(p, "resFind",
                               [FreshLoc(p) EXCEPT !.doctor = d,
                                                   !.oldDate = resolvedOldDate,
                                                   !.newDate = resolvedNewDate])
                       /\ req' = [req EXCEPT ![p] = r]

\* faulty variant of HasNewSlot: a new date alone is taken for a new slot
HasNewSlot_DateOnly(kind, resolvedNewDate, newTime) ==
  resolvedNewDate # NULLDATE

\* if (resolvedNewDate && newTime [&& newTime.includes(':')])
HasNewSlot(kind, resolvedNewDate, newTime) ==
  /\ resolvedNewDate # NULLDATE
  /\ ~Falsy(newTime)
  /\ kind = "rescheduleA" => Includes(newTime, <<":">>)

\* faulty variant of ReschedFind: only findError is tested, not !existingAppt
ReschedFind_ErrorOnly(p) ==
  /\ pc[p] = "resFind"
  /\ \E storeErr \in BOOLEAN :
       LET rows == ConfirmedOfPatient(loc[p].doctor, loc[p].oldDate,
                                      Trim(req[p].patientName))
           res == MaybeSingle(rows, storeErr)
       IN  IF res.error
           THEN Return(p, [ReschedFail(req[p].kind, "not_found")
                             EXCEPT !.cause = ErrCause(rows, storeErr)])
           ELSE IF HasNewSlot(req[p].kind, loc[p].newDate, req[p].newTime)
           THEN Goto(p, "resConflict", [loc[p] EXCEPT !.existing = res.data])
                /\ UNCHANGED req
           ELSE Return(p, [Response(req[p].kind, 200, {"success", "needsNewSlot", "message"},
                                    TRUE, "needs_new_slot")
                             EXCEPT !.needsNewSlot = TRUE])
  /\ lastBooked' = NoKey
  /\ UNCHANGED <<appts, nreq, rvars, xvars>>

\* phase 1: the confirmed booking of (doctor, old date, patient fragment)
ReschedFind(p) ==
  /\ pc[p] = "resFind"
  /\ \E storeErr \in BOOLEAN :
       IF req[p].patientName = UNDEF
       THEN Return(p, [ReschedFail(req[p].kind, "exception") EXCEPT !.cause = "type"])
       ELSE LET rows == ConfirmedOfPatient(loc[p].doctor, loc[p].oldDate,
                                           Trim(req[p].patientName))
                res == MaybeSingle(rows, storeErr)
            IN  IF res.error \/ res.data = 0
                THEN Return(p, [ReschedFail(req[p].kind, "not_found")
                                  EXCEPT !.cause = ErrCause(rows, storeErr)])
                ELSE IF HasNewSlot(req[p].kind, loc[p].newDate, req[p].newTime)
                THEN Goto(p, "resConflict", [loc[p] EXCEPT !.existing = res.data])
                     /\ UNCHANGED req
                ELSE Return(p, [Response(req[p].kind, 200, {"success", "needsNewSlot", "message"},
                                         TRUE, "needs_new_slot")
                                  EXCEPT !.needsNewSlot = TRUE])
  /\ lastBooked' = NoKey
  /\ UNCHANGED <<appts, nreq, rvars, xvars>>

\* phase 2: the conflict check at the new key (only data is read, not error)
ReschedConflict(p) ==
  /\ pc[p] = "resConflict"
  /\ \E storeErr \in BOOLEAN :
       LET res == MaybeSingle(ConfirmedAt(loc[p].doctor, loc[p].newDate, req[p].newTime),
                              storeErr)
       IN  IF res.data # 0
           THEN Return(p, ReschedFail(req[p].kind, "conflict"))
           ELSE Goto(p, "resUpdate", loc[p]) /\ UNCHANGED req
  /\ lastBooked' = NoKey
  /\ UNCHANGED <<appts, nreq, rvars, xvars>>

\* update ... eq('id', existingAppt.id).select()
ReschedUpdate(p) ==
  /\ pc[p] = "resUpdate"
  /\ \E storeErr \in BOOLEAN :
       LET updated == {i \in 1..Len(appts) : i = loc[p].existing}
       IN  IF storeErr
           THEN Return(p, Caused(ReschedFail(req[p].kind, "exception"), TRUE)) /\ UNCHANGED appts
           ELSE /\ appts' = [i \in 1..Len(appts) |->
                              IF i \in updated
                              THEN [appts[i] EXCEPT !.appointment_date = loc[p].newDate,
                                                    !.appointment_time = req[p].newTime,
                                                    !.updated_at = nreq]
                              ELSE appts[i]]
                /\ IF req[p].kind = "rescheduleA" /\ updated = {}
                   THEN Return(p, ReschedFail(req[p].kind, "update_not_applied"))
                   ELSE Return(p, Response(req[p].kind, 200, {"success", "message"}, TRUE,
                                           "rescheduled"))
  /\ lastBooked' = NoKey
  /\ UNCHANGED <<nreq, rvars, xvars>>

(***************************************************************************)
(* cancel-booking, date-normalizing handler: unnamed/part_008.             *)
(***************************************************************************)
Cancel8Fail(tag, etype) ==
  [Response("cancel8", 200, IF etype = "" THEN {"success", "message"}
                 ELSE {"success", "error_type", "message"}, FALSE, tag)
     EXCEPT !.error_type = etype]

\* validation, date normalization and the doctor lookup (limit 1, error not read)
Cancel8Start(p) ==
  \E r \in {c \in CancelRequests : c.kind = "cancel8"}, storeErr \in BOOLEAN :
    /\ Accept(p)
    /\ UNCHANGED <<appts, rvars, xvars>>
    /\ IF Falsy(r.doctorName) \/ Falsy(r.patientName) \/ Falsy(r.date)
       THEN Return(p, [Cancel8Fail("missing", "") EXCEPT !.lacks = TRUE])
       ELSE LET dateCheck == normalizeDate(r.date)
                cleanSearch == Trim(StripDotsAndBlanks(ReplaceDr(r.doctorName)))
                doctors == IF storeErr THEN {} ELSE DoctorsILikeSpread(cleanSearch)
            IN  IF ~dateCheck.valid
                THEN Return(p, Cancel8Fail("bad_date", ""))
                ELSE IF doctors = {}
                THEN Return(p, [Cancel8Fail("doctor_not_found", "DOCTOR_NOT_FOUND")
                                  EXCEPT !.cause = IF storeErr THEN "store" ELSE ""])
                ELSE \E d \in doctors :
                       /\ Goto(p, "cancel8Update",
                               [FreshLoc(p) EXCEPT !.doctor = d, !.oldDate = dateCheck.date])
                       /\ req' = [req EXCEPT ![p] = r]

\* faulty variant of Cancel8Update: the matched rows are deleted, not updated
Cancel8Update_Delete(p) ==
  /\ pc[p] = "cancel8Update"
  /\ \E storeErr \in BOOLEAN :
       LET deleted == ConfirmedOfPatient(loc[p].doctor, loc[p].oldDate,
                                         Trim(req[p].patientName))
       IN  IF storeErr
           THEN Return(p, Caused(Cancel8Fail("unavailable", ""), TRUE)) /\ UNCHANGED appts
           ELSE /\ appts' = SelectSeq(appts, LAMBDA a :
                                 \E i \in 1..Len(appts) : i \notin deleted /\ appts[i] = a)
                /\ IF deleted = {}
                   THEN Return(p, Cancel8Fail("not_found", "APPOINTMENT_NOT_FOUND"))
                   ELSE Return(p, Response("cancel8", 200, {"success", "message"}, TRUE, "cancelled"))
  /\ lastBooked' = NoKey
  /\ UNCHANGED <<nreq, rvars, xvars>>

\* faulty variant of Cancel8Update: the update does not filter on status 'confirmed'
Cancel8Update_AnyStatus(p) ==
  /\ pc[p] = "cancel8Update"
  /\ \E storeErr \in BOOLEAN :
       LET updated == {i \in 1..Len(appts) :
                         /\ appts[i].doctor_id = loc[p].doctor
                         /\ appts[i].appointment_date = loc[p].oldDate
                         /\ ILikeContains(appts[i].patient_name, Trim(req[p].patientName))}
       IN  IF storeErr
           THEN Return(p, Caused(Cancel8Fail("unavailable", ""), TRUE)) /\ UNCHANGED appts
           ELSE /\ appts' = [i \in 1..Len(appts) |->
                              IF i \in updated THEN [appts[i] EXCEPT !.status = "cancelled"]
                              ELSE appts[i]]
                /\ IF updated = {}
                   THEN Return(p, Cancel8Fail("not_found", "APPOINTMENT_NOT_FOUND"))
                   ELSE Return(p, Response("cancel8", 200, {"success", "message"}, TRUE, "cancelled"))
  /\ lastBooked' = NoKey
  /\ UNCHANGED <<nreq, rvars, xvars>>

\* update {status: 'cancelled'} match {doctor, date, confirmed} ilike patient, select()
Cancel8Update(p) ==
  /\ pc[p] = "cancel8Update"
  /\ \E storeErr \in BOOLEAN :
       LET updated == ConfirmedOfPatient(loc[p].doctor, loc[p].oldDate,
                                         Trim(req[p].patientName))
       IN  IF storeErr
           THEN Return(p, Caused(Cancel8Fail("unavailable", ""), TRUE)) /\ UNCHANGED appts
           ELSE /\ appts' = [i \in 1..Len(appts) |->
                              IF i \in updated THEN [appts[i] EXCEPT !.status = "cancelled"]
                              ELSE appts[i]]
                /\ IF updated = {}
                   THEN Return(p, Cancel8Fail("not_found", "APPOINTMENT_NOT_FOUND"))
                   ELSE Return(p, Response("cancel8", 200, {"success", "message"}, TRUE, "cancelled"))
  /\ lastBooked' = NoKey
  /\ UNCHANGED <<nreq, rvars, xvars>>

(***************************************************************************)
(* cancel-booking: netlify/functions/cancelAppointment.ts.                 *)
(***************************************************************************)
\* validation and the doctor lookup with .single(): an error unless exactly one row
CancelAStart(p) ==
  \E r \in {c \in CancelRequests : c.kind = "cancelA"}, storeErr \in BOOLEAN :
    /\ Accept(p)
    /\ UNCHANGED <<appts, rvars, xvars>>
    /\ IF Falsy(r.doctorName) \/ Falsy(r.patientName) \/ Falsy(r.date)
       THEN Return(p, [Response("cancelA", 400, {"error"}, FALSE, "missing")
                         EXCEPT !.lacks = TRUE])
       ELSE LET rows == DoctorsILike(r.doctorName)
            IN  IF storeErr \/ Cardinality(rows) # 1
                THEN Return(p, [Response("cancelA", 404, {"success", "message"}, FALSE,
                                         "doctor_not_found")
                                  EXCEPT !.cause = ErrCause(rows, storeErr)])
                ELSE /\ Goto(p, "cancelAUpdate",
                             [FreshLoc(p) EXCEPT !.doctor = CHOOSE d \in rows : TRUE,
                                                 !.oldDate = r.date])
                     /\ req' = [req EXCEPT ![p] = r]

\* update {status: 'cancelled'} eq doctor_id, ilike patient_name, eq appointment_date
CancelAUpdate(p) ==
  /\ pc[p] = "cancelAUpdate"
  /\ \E storeErr \in BOOLEAN :
       LET matched == {i \in 1..Len(appts) :
                         /\ appts[i].doctor_id = loc[p].doctor
                         /\ ILikeContains(appts[i].patient_name, req[p].patientName)
                         /\ appts[i].appointment_date = loc[p].oldDate}
       IN  IF storeErr
           THEN Return(p, Caused(Response("cancelA", 500, {"success", "message"}, FALSE, "db_error"),
                                 TRUE))
                /\ UNCHANGED appts
           ELSE /\ appts' = [i \in 1..Len(appts) |->
                              IF i \in matched THEN [appts[i] EXCEPT !.status = "cancelled"]
                              ELSE appts[i]]
                /\ Return(p, Response("cancelA", 200, {"success", "message"}, TRUE, "cancelled"))
  /\ lastBooked' = NoKey
  /\ UNCHANGED <<nreq, rvars, xvars>>

(***************************************************************************)
(* queryWithRetry and isTransientError: getAvailableSlots.ts lines 15-46   *)
(* (the same text is in getDoctorDetails.ts).                              *)
(***************************************************************************)
\* queryWithRetry's default for its parameter maxAttempts; no caller passes another
maxAttempts == 3

\* const delays = [100, 200, 400]  (delays[attempt] is element attempt + 1 here)
delays == <<100, 200, 400>>

\* errors query() may throw: a message (or none) and a code (or none)
ErrNotFound ==
  [message |-> <<"g", "e", "t", "a", "d", "d", "r", "i", "n", "f", "o", " ",
                 "E", "N", "O", "T", "F", "O", "U", "N", "D">>,
   code |-> "ENOTFOUND"]
ErrRefusedByCode ==
  [message |-> <<"f", "e", "t", "c", "h", " ", "f", "a", "i", "l", "e", "d">>,
   code |-> "ECONNREFUSED"]
ErrTimedOutByCode ==
  [message |-> <<"c", "o", "n", "n", "e", "c", "t", " ",
                 "E", "T", "I", "M", "E", "D", "O", "U", "T">>,
   code |-> "ETIMEDOUT"]
ErrNetworkByMessage ==
  [message |-> <<"N", "e", "t", "w", "o", "r", "k", " ", "T", "i", "m", "e", "o", "u", "t">>,
   code |-> ""]
ErrTimedOutNoCode ==
  [message |-> <<"c", "o", "n", "n", "e", "c", "t", " ",
                 "E", "T", "I", "M", "E", "D", "O", "U", "T">>,
   code |-> ""]
ErrPermission ==
  [message |-> <<"p", "e", "r", "m", "i", "s", "s", "i", "o", "n", " ",
                 "d", "e", "n", "i", "e", "d">>,
   code |-> "42501"]
ErrNoMessage == [message |-> UNDEF, code |-> ""]

QueryErrors ==
  {ErrNotFound, ErrRefusedByCode, ErrTimedOutByCode, ErrNetworkByMessage,
   ErrTimedOutNoCode, ErrPermission, ErrNoMessage}

\* what one invocation of query() does: it resolves to the store's answer, which
\* is rows ({data, error: null}) or an error result ({data: null, error}), or it
\* throws an error
QueryOutcomes ==
  {[ok |-> TRUE, value |-> "rows", error |-> ErrNoMessage]}
    \cup {[ok |-> TRUE, value |-> "error", error |-> e] : e \in {ErrPermission, ErrNetworkByMessage}}
    \cup {[ok |-> FALSE, value |-> "none", error |-> e] : e \in QueryErrors}

\* the invocation did not give rows: it threw, or resolved to an error result
Failed(o) == ~o.ok \/ o.value = "error"

isTransientError(error) ==
  LET msg == IF error.message = UNDEF THEN <<>> ELSE Lower(error.message)
      code == error.code
  IN  \/ Includes(msg, <<"e", "n", "o", "t", "f", "o", "u", "n", "d">>)
      \/ Includes(msg, <<"e", "c", "o", "n", "n", "r", "e", "f", "u", "s", "e", "d">>)
      \/ Includes(msg, <<"t", "i", "m", "e", "o", "u", "t">>)
      \/ Includes(msg, <<"n", "e", "t", "w", "o", "r", "k">>)
      \/ code = "ENOTFOUND"
      \/ code = "ECONNREFUSED"
      \/ code = "ETIMEDOUT"

\* a caller invokes queryWithRetry(query): the loop starts with attempt = 0
RetryBegin ==
  /\ rpc \in {"idle", "returned", "thrown"}
  /\ rpc' = "call"
  /\ attempt' = 0
  /\ tries' = <<>>
  /\ waits' = <<>>
  /\ result' = NoOutcome
  /\ UNCHANGED <<hvars, xvars>>

\* faulty variant of RetryAttempt: the test attempt === maxAttempts - 1 is missing
RetryAttempt_Unbounded ==
  /\ rpc = "call"
  /\ attempt < Len(delays)
  /\ \E o \in QueryOutcomes :
       /\ tries' = Append(tries, o)
       /\ IF o.ok
          THEN rpc' = "returned" /\ result' = o
          ELSE IF ~isTransientError(o.error)
          THEN rpc' = "thrown" /\ result' = o
          ELSE rpc' = "sleep" /\ UNCHANGED result
  /\ UNCHANGED <<attempt, waits, hvars, xvars>>

\* one pass of the loop body: return await query(), or the catch clause
RetryAttempt ==
  /\ rpc = "call"
  /\ attempt < maxAttempts
  /\ \E o \in QueryOutcomes :
       /\ tries' = Append(tries, o)
       /\ IF o.ok
          THEN rpc' = "returned" /\ result' = o
          ELSE IF attempt = maxAttempts - 1 \/ ~isTransientError(o.error)
          THEN rpc' = "thrown" /\ result' = o
          ELSE rpc' = "sleep" /\ UNCHANGED result
  /\ UNCHANGED <<attempt, waits, hvars, xvars>>

\* await setTimeout(delays[attempt]), then attempt++
RetrySleep ==
  /\ rpc = "sleep"
  /\ waits' = Append(waits, delays[attempt + 1])
  /\ attempt' = attempt + 1
  /\ rpc' = "call"
  /\ UNCHANGED <<tries, result, hvars, xvars>>

\* unnamed/part_005, queryWithRetry: an error result is thrown, and every error
\* is retried until the last attempt
Retry5Attempt ==
  /\ rpc = "call"
  /\ attempt < maxAttempts
  /\ \E o \in QueryOutcomes :
       /\ tries' = Append(tries, o)
       /\ IF ~Failed(o)
          THEN rpc' = "returned" /\ result' = o
          ELSE IF attempt = maxAttempts - 1
          THEN rpc' = "thrown" /\ result' = o
          ELSE rpc' = "sleep" /\ UNCHANGED result
  /\ UNCHANGED <<attempt, waits, hvars, xvars>>

\* the helper of unnamed/part_005 on its own (its delay step is that of RetrySleep)
SpecRetry5 == Init /\ [][RetryBegin \/ Retry5Attempt \/ RetrySleep]_vars

NextRetry == RetryBegin \/ RetryAttempt \/ RetrySleep

\* queryWithRetry on its own, under every sequence of outcomes of query()
SpecRetry == Init /\ [][NextRetry]_vars

(***************************************************************************)
(* Slot generation, from a doctor's working_hours_start and                *)
(* working_hours_end ('HH:MM'): getAvailableSlots.ts lines 105-122,        *)
(* getAllSpecialties.ts lines 172-189 and unnamed/part_005 lines 207-214.  *)
(***************************************************************************)
\* `${String(h).padStart(2, '0')}:${String(m).padStart(2, '0')}`
TimeString(h, m) == Pad2(h) \o <<":">> \o Pad2(m)

\* t.split(':').map(Number) : the hour and the minute of 'HH:MM'
HourOf(t) == NumVal(Split(t, ":")[1])
MinuteOf(t) == NumVal(Split(t, ":")[2])

\* getAvailableSlots.ts: the while loop; past the hour, currentM restarts at 0
RECURSIVE SlotLoop(_, _, _, _)
SlotLoop(currentH, currentM, endH, endM) ==
  IF currentH < endH \/ (currentH = endH /\ currentM < endM)
  THEN <<TimeString(currentH, currentM)>>
         \o (IF currentM + 30 >= 60
             THEN SlotLoop(currentH + 1, 0, endH, endM)
             ELSE SlotLoop(currentH, currentM + 30, endH, endM))
  ELSE <<>>

generateSlots(start, end) ==
  SlotLoop(HourOf(start), MinuteOf(start), HourOf(end), MinuteOf(end))

\* getAllSpecialties.ts: the while loop; past the hour, currentMinute -= 60
RECURSIVE PossibleSlotLoop(_, _, _, _)
PossibleSlotLoop(currentHour, currentMinute, endHour, endMinute) ==
  IF currentHour < endHour \/ (currentHour = endHour /\ currentMinute < endMinute)
  THEN <<TimeString(currentHour, currentMinute)>>
         \o (IF currentMinute + 30 >= 60
             THEN PossibleSlotLoop(currentHour + 1, currentMinute + 30 - 60,
                                   endHour, endMinute)
             ELSE PossibleSlotLoop(currentHour, currentMinute + 30, endHour, endMinute))
  ELSE <<>>

allPossibleSlots(start, end) ==
  PossibleSlotLoop(HourOf(start), MinuteOf(start), HourOf(end), MinuteOf(end))

\* unnamed/part_005: for (h = startH; h < endH; h++) push h:00 and h:30
RECURSIVE HourLoop(_, _)
HourLoop(h, endH) ==
  IF h < endH THEN <<TimeString(h, 0), TimeString(h, 30)>> \o HourLoop(h + 1, endH)
  ELSE <<>>

hourlySlots(start, end) == HourLoop(HourOf(start), HourOf(end))

\* working hours a doctors row may hold
WorkingHours == {TimeString(h, m) : h \in 9..LastHour, m \in {0, 15, 30, 45}}

\* one of the three generators is run on the working hours of a doctors row
GenerateSlots ==
  /\ \E start \in WorkingHours, end \in WorkingHours, variant \in {"slots", "specialties", "p5"} :
       gen' = [variant |-> variant, start |-> start, end |-> end,
               slots |-> CASE variant = "slots" -> generateSlots(start, end)
                           [] variant = "specialties" -> allPossibleSlots(start, end)
                           [] variant = "p5" -> hourlySlots(start, end)]
  /\ UNCHANGED <<hvars, rvars, svars, ovars, calc, det>>

\* slot generation on its own, over every pair of working hours
SpecSlotGen == Init /\ [][GenerateSlots]_vars

(***************************************************************************)
(* list-availability: getAvailableSlots.ts, the handler of lines 48-216.   *)
(* Each queryWithRetry call of the handler is one step: the outcomes of    *)
(* the successive invocations of query() are chosen, the helper's loop is  *)
(* run over them, and the store is read when an invocation gives rows.     *)
(***************************************************************************)
\* queryWithRetry (lines 30-46) over the outcomes os[1], os[2], ... of the
\* successive invocations of query(): the outcome the call ends with
RECURSIVE RetryRun(_, _)
RetryRun(os, n) ==
  LET o == os[n + 1]
  IN  IF o.ok THEN o
      ELSE IF n = maxAttempts - 1 \/ ~isTransientError(o.error) THEN o
      ELSE RetryRun(os, n + 1)

queryWithRetry(os) == RetryRun(os, 0)

OutcomeRuns == [1..maxAttempts -> QueryOutcomes]

\* what a queryWithRetry call can end with, over every run of outcomes
RetryResults == {queryWithRetry(os) : os \in OutcomeRuns}

PeriodMorning == <<"m", "o", "r", "n", "i", "n", "g">>
PeriodAfternoon == <<"a", "f", "t", "e", "r", "n", "o", "o", "n">>
PeriodEvening == <<"e", "v", "e", "n", "i", "n", "g">>

SlotsRequests ==
  [doctorName : {NameAdi, NameDrRavi}, date : {D24},
   timeOfDay : {UNDEF, PeriodMorning, <<"A">> \o Tail(PeriodAfternoon), PeriodEvening},
   wellFormed : {TRUE}]
    \cup {[NoSlotsReq EXCEPT !.doctorName = <<"R", "a">>, !.date = D24],
          [NoSlotsReq EXCEPT !.doctorName = NameAdi],
          [NoSlotsReq EXCEPT !.wellFormed = FALSE]}

\* the outer catch (lines 192-215): status and error_type from the error caught
CatchResponse(error) ==
  LET transient == isTransientError(error)
      timeout == error.message # UNDEF
                 /\ Includes(error.message, <<"t", "i", "m", "e", "o", "u", "t">>)
  IN  [NoSlotsResp EXCEPT
         !.statusCode = IF transient THEN 503 ELSE IF timeout THEN 504 ELSE 500,
         !.error_type = IF transient THEN "DATABASE_TEMPORARILY_UNAVAILABLE"
                        ELSE IF timeout THEN "REQUEST_TIMEOUT" ELSE "UNKNOWN_ERROR",
         !.tag = "exception"]

\* JSON.parse of the body (a SyntaxError goes to the outer catch), then validation
SlotsStart ==
  /\ spc \in {"idle", "done"}
  /\ \E r \in SlotsRequests :
       IF ~r.wellFormed
       THEN /\ sresp' = CatchResponse([message |-> <<"U", "n", "e", "x", "p", "e", "c", "t",
                                                     "e", "d", " ", "t", "o", "k", "e", "n">>,
                                       code |-> ""])
            /\ spc' = "done"
            /\ sreq' = NoSlotsReq
       ELSE IF Falsy(r.doctorName) \/ Falsy(r.date)
       THEN /\ sresp' = [NoSlotsResp EXCEPT !.statusCode = 400, !.tag = "missing"]
            /\ spc' = "done"
            /\ sreq' = NoSlotsReq
       ELSE /\ spc' = "doctor"
            /\ sreq' = r
            /\ sresp' = NoSlotsResp
  /\ sdoctor' = 0
  /\ UNCHANGED <<hvars, rvars, gen, ovars, calc, det>>

\* the doctor lookup: ilike name, .single(); a thrown error becomes docError
SlotsDoctor ==
  /\ spc = "doctor"
  /\ \E res \in RetryResults :
       LET rows == DoctorsILike(Trim(ReplaceDr(sreq.doctorName)))
           docError == Failed(res) \/ Cardinality(rows) # 1
       IN  IF docError
           THEN /\ sresp' = [NoSlotsResp EXCEPT !.statusCode = 404,
                                                 !.error_type = "DOCTOR_NOT_FOUND",
                                                 !.tag = "doctor_not_found",
                                                 !.cause = res]
                /\ spc' = "done"
                /\ sreq' = NoSlotsReq
                /\ sdoctor' = 0
           ELSE /\ sdoctor' = CHOOSE d \in rows : TRUE
                /\ spc' = "booked"
                /\ UNCHANGED <<sreq, sresp>>
  /\ UNCHANGED <<hvars, rvars, gen, ovars, calc, det>>

\* parseInt(t.split(':')[0])
SlotHour(t) == ParseInt(Split(t, ":")[1])

InMorning(t) == SlotHour(t) < 12
\* faulty variant of InAfternoon: 17:00 is taken for the afternoon too
InAfternoon_Through17(t) == SlotHour(t) >= 12 /\ SlotHour(t) <= 17
InAfternoon(t) == SlotHour(t) >= 12 /\ SlotHour(t) < 17
InEvening(t) == SlotHour(t) >= 17

\* the summary of the mode without timeOfDay: the non-empty periods with counts
PeriodSummary(available) ==
  LET entry(name, list) ==
        IF Len(list) > 0 THEN <<[period |-> name, count |-> Len(list)]>> ELSE <<>>
  IN  entry(PeriodMorning, SelectSeq(available, InMorning))
        \o entry(PeriodAfternoon, SelectSeq(available, InAfternoon))
        \o entry(PeriodEvening, SelectSeq(available, InEvening))

\* slot generation, the booked-appointments lookup (a thrown error or an error
\* result leaves booked = null), the filter, the periods and the response
SlotsBooked ==
  /\ spc = "booked"
  /\ \E res \in RetryResults :
       LET doctor == DoctorRows[CHOOSE j \in 1..Len(DoctorRows) : DoctorRows[j].id = sdoctor]
           slots == generateSlots(doctor.working_hours_start, doctor.working_hours_end)
           booked == IF Failed(res) THEN {}
                     ELSE {i \in 1..Len(appts) : /\ appts[i].doctor_id = sdoctor
                                                  /\ appts[i].appointment_date = sreq.date
                                                  /\ appts[i].status = "confirmed"}
           bookedTimes == {SubSeq(appts[i].appointment_time, 1, 5) : i \in booked}
           available == SelectSeq(slots, LAMBDA t : t \notin bookedTimes)
           ok == [NoSlotsResp EXCEPT !.statusCode = 200, !.success = TRUE,
                                     !.available = available, !.cause = res]
       IN  IF Falsy(sreq.timeOfDay)
           THEN LET summary == PeriodSummary(available)
                IN  sresp' = [ok EXCEPT !.tag = "periods", !.periods = summary,
                                        !.noSlots = (Len(summary) = 0)]
           ELSE LET target == Lower(sreq.timeOfDay)
                IN  sresp' = [ok EXCEPT !.tag = "slots", !.period = target,
                                !.slots = IF target = PeriodMorning
                                            THEN SelectSeq(available, InMorning)
                                          ELSE IF target = PeriodAfternoon
                                            THEN SelectSeq(available, InAfternoon)
                                          ELSE SelectSeq(available, InEvening)]
  /\ spc' = "done"
  /\ sreq' = NoSlotsReq
  /\ sdoctor' = 0
  /\ UNCHANGED <<hvars, rvars, gen, ovars, calc, det>>

\* list-availability beside one create-booking or cancel-booking at a time
NextSlots ==
  \/ SlotsStart
  \/ SlotsDoctor
  \/ SlotsBooked
  \/ BookStart("h1")
  \/ BookCheck("h1")
  \/ BookInsert("h1")
  \/ Cancel8Start("h1")
  \/ Cancel8Update("h1")

SpecSlots == Init /\ [][NextSlots]_vars

(***************************************************************************)
(* orchestrator: getAiResponse.ts, the tools catalog, executeTool and the  *)
(* handler of lines 328-443.  The reasoning service and the capability     *)
(* endpoints are the environment: each request to them is one step whose   *)
(* answer is chosen.                                                       *)
(***************************************************************************)
MaxCalls == 2

\* the catalog (lines 239-304): each declared name with its required arguments
tools ==
  [getAvailableSlots |-> {"doctorName", "date"},
   getDoctorDetails |-> {},
   bookAppointment |-> {"doctorName", "patientName", "phone", "date", "time"},
   cancelAppointment |-> {"doctorName", "patientName", "date"}]

\* function.name and function.arguments of a tool call: the arguments are a
\* string that is JSON for an object with the keys given, or is not JSON
ToolCallShapes ==
  {[name |-> "getAvailableSlots", wellFormed |-> TRUE, keys |-> {"doctorName", "date"}],
   [name |-> "getAvailableSlots", wellFormed |-> TRUE, keys |-> {"doctorName"}],
   [name |-> "getDoctorDetails", wellFormed |-> TRUE, keys |-> {"specialty"}],
   [name |-> "getDoctorDetails", wellFormed |-> FALSE, keys |-> {}],
   [name |-> "rescheduleAppointment", wellFormed |-> TRUE,
    keys |-> {"patientName", "doctorName", "oldDate", "newDate", "newTime"}]}

\* the tool_calls arrays: call i has id i
ToolCallLists ==
  UNION {[1..n -> ToolCallShapes] : n \in 1..MaxCalls}

WithIds(calls) ==
  [i \in 1..Len(calls) |->
     [id |-> i, name |-> calls[i].name, wellFormed |-> calls[i].wellFormed,
      keys |-> calls[i].keys]]

TextOk == <<"O", "k">>
TextBold == <<"*", "*", "O", "k", "*", "*">>
Texts == {TextOk, TextBold, <<"#", "#", " ", "O", "_", "_", "k", " ">>, UNDEF}

\* what the reasoning service can answer: a message with text and no
\* tool_calls, a message with tool calls, or nothing usable (the fetch
\* rejects, or the body has no choices)
TextMessages == {[NoMessage EXCEPT !.content = t] : t \in Texts}
ToolMessages ==
  {[content |-> UNDEF, tool_calls |-> [present |-> TRUE, list |-> WithIds(c)]] :
     c \in ToolCallLists}
Pass1Answers ==
  {[ok |-> TRUE, message |-> m] : m \in TextMessages \cup ToolMessages}
    \cup {[ok |-> FALSE, message |-> NoMessage]}
Pass2Answers ==
  {[ok |-> TRUE, message |-> m] :
     m \in TextMessages
           \cup {[content |-> TextOk,
                  tool_calls |-> [present |-> TRUE,
                                  list |-> WithIds(<<CHOOSE c \in ToolCallShapes :
                                                       c.name = "rescheduleAppointment">>)]]}}
    \cup {[ok |-> FALSE, message |-> NoMessage]}

\* s.replace(pat, "") with the g flag, pat a literal
RECURSIVE RemoveAll(_, _)
RemoveAll(s, pat) ==
  IF Len(s) < Len(pat) THEN s
  ELSE IF SubSeq(s, 1, Len(pat)) = pat
       THEN RemoveAll(SubSeq(s, Len(pat) + 1, Len(s)), pat)
       ELSE <<Head(s)>> \o RemoveAll(Tail(s), pat)

\* how many of the first characters of s are '#', six at most
RECURSIVE HashRun(_, _)
HashRun(s, n) ==
  IF n < 6 /\ Len(s) > n /\ s[n + 1] = "#" THEN HashRun(s, n + 1) ELSE n

\* s.replace(/#{1,6}\s?/g, "")
RECURSIVE RemoveHeaders(_)
RemoveHeaders(s) ==
  IF s = <<>> THEN <<>>
  ELSE IF Head(s) = "#"
       THEN LET k == HashRun(s, 0)
                k2 == IF Len(s) > k /\ s[k + 1] = " " THEN k + 1 ELSE k
            IN  RemoveHeaders(SubSeq(s, k2 + 1, Len(s)))
       ELSE <<Head(s)>> \o RemoveHeaders(Tail(s))

\* FINAL CLEANUP (lines 424-428)
cleanReply(content) ==
  Trim(RemoveHeaders(RemoveAll(RemoveAll(IF Falsy(content) THEN <<>> ELSE content,
                                         <<"*", "*">>),
                               <<"_", "_">>)))

Reply200(message) ==
  [statusCode |-> 200, tag |-> "reply", reply |-> cleanReply(message.content)]
\* the outer catch (lines 436-443)
Reply500 == [statusCode |-> 500, tag |-> "error", reply |-> UNDEF]

\* a request to the reasoning service as logged: the pass, whether the catalog
\* is sent, and the messages after the system prompt and the history
ReasonEvent(pass, assistant, results) ==
  [ev |-> "reason", pass |-> pass, withTools |-> (pass = 1),
   assistant |-> assistant, results |-> results, id |-> 0, name |-> ""]
\* a request to a capability endpoint as logged, with the answer it got
DispatchEvent(call, answer) ==
  [ev |-> "dispatch", pass |-> 0, withTools |-> FALSE,
   assistant |-> NoMessage, results |-> <<>>, id |-> call.id, name |-> call.name,
   answer |-> answer]

\* OPTIONS, the API key, JSON.parse of the body (lines 329-335)
OrchStart ==
  /\ opc \in {"idle", "done"}
  /\ \E kind \in {"options", "nokey", "badbody", "chat"} :
       /\ opc' = IF kind = "chat" THEN "pass1" ELSE "done"
       /\ oresp' = CASE kind = "options" -> [NoReply EXCEPT !.statusCode = 200, !.tag = "options"]
                     [] kind = "chat" -> NoReply
                     [] OTHER -> Reply500
  /\ omsg' = NoMessage
  /\ oresults' = <<>>
  /\ olog' = <<>>
  /\ UNCHANGED <<hvars, rvars, gen, svars, calc, det>>

\* the test of line 397
HasToolCalls_Always(message) == TRUE
HasToolCalls(message) == message.tool_calls.present

\* PASS 1 (lines 380-394); without tool calls, the cleanup and the reply
OrchPass1 ==
  /\ opc = "pass1"
  /\ \E a \in Pass1Answers :
       /\ olog' = Append(olog, ReasonEvent(1, NoMessage, <<>>))
       /\ IF ~a.ok
          THEN opc' = "done" /\ oresp' = Reply500 /\ omsg' = NoMessage
          ELSE /\ omsg' = a.message
               /\ IF HasToolCalls(a.message)
                  THEN opc' = "tools" /\ oresp' = NoReply
                  ELSE opc' = "done" /\ oresp' = Reply200(a.message)
  /\ oresults' = <<>>
  /\ UNCHANGED <<hvars, rvars, gen, svars, calc, det>>

\* executeTool (lines 309-326): what it returns for the answer of the endpoint
\* what a capability endpoint can answer: the HTTP status with success and
\* message of the JSON body; status 0 stands for a fetch that rejects
EndpointAnswers ==
  {[status |-> 200, success |-> TRUE, message |-> "Appointment confirmed successfully!"],
   [status |-> 409, success |-> FALSE, message |-> "Conflict: the slot was just taken."],
   [status |-> 404, success |-> FALSE, message |-> "Doctor not found."],
   [status |-> 503, success |-> FALSE, message |-> "Database temporarily unavailable."],
   [status |-> 0, success |-> FALSE, message |-> ""]}

ToolResult(answer) ==
  IF answer.status = 0
  THEN [success |-> FALSE, message |-> "Network connection issue."]
  ELSE IF answer.status \notin 200..299
  THEN [success |-> FALSE, message |-> "Service is temporarily busy."]
  ELSE [success |-> answer.success, message |-> answer.message]

\* faulty variant of OrchTool: executeTool is called twice for the tool call
OrchTool_Twice ==
  /\ opc = "tools"
  /\ Len(oresults) < Len(omsg.tool_calls.list)
  /\ LET toolCall == omsg.tool_calls.list[Len(oresults) + 1]
     IN  IF ~toolCall.wellFormed
         THEN /\ opc' = "done"
              /\ oresp' = Reply500
              /\ UNCHANGED <<omsg, oresults, olog>>
         ELSE \E answer \in EndpointAnswers :
                /\ olog' = olog \o <<DispatchEvent(toolCall, answer),
                                     DispatchEvent(toolCall, answer)>>
                /\ oresults' = Append(oresults,
                      [role |-> "tool", tool_call_id |-> toolCall.id, name |-> toolCall.name,
                       content |-> <<"json", ToolResult(answer)>>])
                /\ UNCHANGED <<opc, omsg, oresp>>
  /\ UNCHANGED <<hvars, rvars, gen, svars, calc, det>>

\* one turn of the loop of lines 399-407: JSON.parse of the arguments (a
\* SyntaxError goes to the outer catch), executeTool, toolResults.push
OrchTool ==
  /\ opc = "tools"
  /\ Len(oresults) < Len(omsg.tool_calls.list)
  /\ LET toolCall == omsg.tool_calls.list[Len(oresults) + 1]
     IN  IF ~toolCall.wellFormed
         THEN /\ opc' = "done"
              /\ oresp' = Reply500
              /\ UNCHANGED <<omsg, oresults, olog>>
         ELSE \E answer \in EndpointAnswers :
                /\ olog' = Append(olog, DispatchEvent(toolCall, answer))
                /\ oresults' = Append(oresults,
                      [role |-> "tool", tool_call_id |-> toolCall.id, name |-> toolCall.name,
                       content |-> <<"json", ToolResult(answer)>>])
                /\ UNCHANGED <<opc, omsg, oresp>>
  /\ UNCHANGED <<hvars, rvars, gen, svars, calc, det>>

\* the second request (lines 409-420), the cleanup and the reply
OrchPass2 ==
  /\ opc = "tools"
  /\ Len(oresults) = Len(omsg.tool_calls.list)
  /\ \E a \in Pass2Answers :
       /\ olog' = Append(olog, ReasonEvent(2, omsg, oresults))
       /\ IF ~a.ok
          THEN oresp' = Reply500 /\ omsg' = omsg
          ELSE oresp' = Reply200(a.message) /\ omsg' = a.message
  /\ opc' = "done"
  /\ UNCHANGED oresults
  /\ UNCHANGED <<hvars, rvars, gen, svars, calc, det>>

NextOrch == OrchStart \/ OrchPass1 \/ OrchTool \/ OrchPass2

SpecOrch == Init /\ [][NextOrch]_vars

\* the orchestrator, or the retry loop of a capability handler (the handlers
\* run as functions of their own, the orchestrator sees their HTTP answer only),
\* when every outbound call is answered: a request to the reasoning service, a
\* request to a capability endpoint, a query() of the retry loop and its delay
\* all end, so each awaiting step is taken
NextOrchRetry == (rpc = "idle" /\ NextOrch) \/ (opc = "idle" /\ NextRetry)

SpecOrchFair ==
  /\ Init /\ [][NextOrchRetry]_vars
  /\ WF_vars(OrchPass1) /\ WF_vars(OrchTool) /\ WF_vars(OrchPass2)
  /\ WF_vars(RetryAttempt) /\ WF_vars(RetrySleep)

(***************************************************************************)
(* The helpers of the handlers applied alone: doctor resolution, date      *)
(* normalization and phone formatting over the inputs below.               *)
(***************************************************************************)
\* getStem (getDoctorDetails.ts lines 52-58)
getStem(term) ==
  IF Falsy(term) THEN <<>>
  ELSE LET kept == SelectSeq(ReplaceDr(term),
                             LAMBDA c : \/ c = " "
                                        \/ IsDigit(c)
                                        \/ \E i \in 1..26 : c \in {UpperLetters[i], LowerLetters[i]})
           clean == Trim(kept)
       IN  IF Len(clean) > 4 THEN SubSeq(clean, 1, 5) ELSE clean

\* the doctors a handler may go on with for a doctorName: the lookup of each
\* handler as its Start action makes it (a limit or a first row is any row)
ResolveDoctor(handler, doctorName) ==
  CASE handler = "book" ->
         LET searchName == Trim(ReplaceDr(doctorName))
             matchingDoctors == DoctorsILike(searchName)
         IN  IF Cardinality(matchingDoctors) > 1
             THEN StrictMatches(matchingDoctors, searchName)
             ELSE matchingDoctors
    [] handler = "slots" ->
         LET rows == DoctorsILike(Trim(ReplaceDr(doctorName)))
         IN  IF Cardinality(rows) = 1 THEN rows ELSE {}
    [] handler = "reschedule" -> DoctorsILike(ReplaceDr(FirstWord(doctorName)))
    [] handler = "cancel8" ->
         DoctorsILikeSpread(Trim(StripDotsAndBlanks(ReplaceDr(doctorName))))
    [] handler = "cancelA" ->
         LET rows == DoctorsILike(doctorName)
         IN  IF Cardinality(rows) = 1 THEN rows ELSE {}
    [] OTHER -> DoctorsILike(getStem(doctorName))

Handlers == {"book", "slots", "reschedule", "cancel8", "cancelA", "details"}

NameFragments ==
  {NameAdi, NameRa, <<"R", "a", "v", "i">>, <<"R", "a", "o">>,
   <<"A", "d", "i", " ", "R", "a", "o">>, <<"r", "a", "v">>}

WithHonorific(name) == <<"D", "r", ".", " ">> \o name

\* a handler resolves N, and 'Dr. N'
CalcResolve ==
  /\ \E h \in Handlers, n \in NameFragments :
       calc' = [fn |-> "resolve", of |-> h, input |-> n,
                output |-> ResolveDoctor(h, n),
                again |-> ResolveDoctor(h, WithHonorific(n))]
  /\ UNCHANGED <<hvars, rvars, gen, svars, ovars, det>>

\* the date texts given to the date helpers: D/M/Y with days and months written
\* with and without a leading zero, years of 2, 3 and 4 digits, days that do
\* not exist; ISO texts; a word, bare day numbers, D/M, something else, nothing
DateInputs ==
  {d \o <<"/">> \o m \o <<"/">> \o y :
     d \in {<<"5">>, <<"0", "5">>, <<"2", "8">>, <<"2", "9">>, <<"3", "0">>, <<"3", "1">>},
     m \in {<<"1">>, <<"0", "2">>, <<"4">>, <<"1", "2">>},
     y \in {<<"2", "6">>, <<"2", "4">>, <<"2", "0", "2", "6">>, <<"2", "2", "6">>}}
    \cup {y \o <<"-">> \o m \o <<"-">> \o d :
            y \in {<<"2", "0", "2", "6">>, <<"2", "0", "2", "4">>},
            m \in {<<"0", "1">>, <<"0", "2">>, <<"0", "4">>, <<"1", "3">>},
            d \in {<<"0", "5">>, <<"2", "9">>, <<"3", "0">>, <<"3", "1">>}}
    \cup {<<" ", "T", "o", "m", "o", "r", "r", "o", "w">>, <<"t", "o", "d", "a", "y">>,
          <<"5">>, <<"3", "1">>, <<"3", "2">>, <<"2", "4", "/", "0", "1">>,
          <<"a", "/", "b">>, <<"n", "e", "x", "t", " ", "w", "e", "e", "k">>, UNDEF}

\* a date helper applied to a text, and again to what it returned; a failure
\* (null, or valid: false) is NULLDATE
DateHelper(of, text) ==
  IF of = "smartDateParser" THEN smartDateParser(text)
  ELSE LET r == normalizeDate(text) IN IF r.valid THEN r.date ELSE NULLDATE

CalcDate ==
  /\ \E of \in {"smartDateParser", "normalizeDate"}, text \in DateInputs :
       LET out == DateHelper(of, text)
       IN  calc' = [fn |-> "date", of |-> of, input |-> text, output |-> out,
                    again |-> IF out = NULLDATE THEN NULLDATE ELSE DateHelper(of, out)]
  /\ UNCHANGED <<hvars, rvars, gen, svars, ovars, det>>

\* contact numbers: digits with an optional leading +, of 9 to 13 characters
PhoneInputs ==
  {<<"9", "8", "7", "6", "5", "4", "3", "2", "1">>,
   Phone10,
   <<"+">> \o Phone10,
   <<"+", "1", "2", "3", "4", "5", "6", "7", "8", "9">>,
   <<"9", "1">> \o Phone10,
   <<"+", "9", "1">> \o Phone10}

\* the phone formatting of create-booking applied to a number, and again to
\* what it returned
CalcPhone ==
  /\ \E phone \in PhoneInputs :
       calc' = [fn |-> "phone", of |-> "formattedPhone", input |-> phone,
                output |-> FormatPhone(phone),
                again |-> FormatPhone(FormatPhone(phone))]
  /\ UNCHANGED <<hvars, rvars, gen, svars, ovars, det>>

\* errors of the classes a caller of isTransientError can meet, beside those
\* of QueryErrors: connection reset, broken pipe, a failed fetch, a 5xx
\* response, and the store's answer for a record that is absent
ErrReset ==
  [message |-> <<"r", "e", "a", "d", " ", "E", "C", "O", "N", "N", "R", "E", "S", "E", "T">>,
   code |-> "ECONNRESET"]
ErrPipe ==
  [message |-> <<"w", "r", "i", "t", "e", " ", "E", "P", "I", "P", "E">>, code |-> "EPIPE"]
ErrFetchFailed ==
  [message |-> <<"f", "e", "t", "c", "h", " ", "f", "a", "i", "l", "e", "d">>, code |-> ""]
ErrUnavailable503 ==
  [message |-> <<"5", "0", "3", " ", "S", "e", "r", "v", "i", "c", "e", " ",
                 "U", "n", "a", "v", "a", "i", "l", "a", "b", "l", "e">>,
   code |-> "503"]
ErrNoRows ==
  [message |-> <<"n", "o", " ", "r", "o", "w", "s">>, code |-> "PGRST116"]

\* isTransientError applied to an error: its code is kept in the field of, its
\* message in input, the answer in output
CalcTransient ==
  /\ \E error \in QueryErrors \cup {ErrReset, ErrPipe, ErrFetchFailed, ErrUnavailable503,
                                      ErrNoRows} :
       calc' = [fn |-> "isTransientError", of |-> error.code, input |-> error.message,
                output |-> IF isTransientError(error) THEN <<"true">> ELSE <<"false">>,
                again |-> UNDEF]
  /\ UNCHANGED <<hvars, rvars, gen, svars, ovars, det>>

NextCalc == CalcResolve \/ CalcDate \/ CalcPhone \/ CalcTransient

SpecCalc == Init /\ [][NextCalc]_vars

(***************************************************************************)
(* find-provider: getDoctorDetails.ts, the handler of lines 60-179.        *)
(***************************************************************************)
DetailsRequests ==
  [specialty : {UNDEF, <<"C", "a", "r", "d", "i", "o">>, <<"E", "N", "T">>},
   doctorName : {UNDEF, NameDrRavi, NameRa, <<"A", "d", "i", "x", "x">>,
                 <<"Z", "e", "d">>, <<"Z">>},
   wellFormed : {TRUE}]
    \cup {[specialty |-> UNDEF, doctorName |-> UNDEF, wellFormed |-> FALSE]}

\* .limit(k): some k of the rows when there are more
Limit(rows, k) ==
  IF Cardinality(rows) <= k THEN {rows}
  ELSE {sub \in SUBSET rows : Cardinality(sub) = k}

\* the narrow search (lines 86-102): what the query can return
NarrowSearch(specialty, doctorName) ==
  LET all == {DoctorRows[j].id : j \in 1..Len(DoctorRows)}
      bySpecialty == {DoctorRows[j].id : j \in {i \in 1..Len(DoctorRows) :
                         ILikeContains(DoctorRows[i].specialty, getStem(specialty))}}
      byName == DoctorsILike(getStem(doctorName))
  IN  IF ~Falsy(specialty) /\ ~Falsy(doctorName) THEN {bySpecialty \cap byName}
      ELSE IF ~Falsy(specialty) THEN {bySpecialty}
      ELSE IF ~Falsy(doctorName) THEN {byName}
      ELSE Limit(all, 5)

\* (doctorName || specialty || "").trim().substring(0, 3)
BroadStem(specialty, doctorName) ==
  LET t == Trim(IF ~Falsy(doctorName) THEN doctorName
                ELSE IF ~Falsy(specialty) THEN specialty ELSE <<>>)
  IN  SubSeq(t, 1, IF Len(t) < 3 THEN Len(t) ELSE 3)

\* the fallback search (lines 126-132): name or specialty ILIKE, limit 3
BroadSearch(specialty, doctorName) ==
  LET broadStem == BroadStem(specialty, doctorName)
  IN  Limit({DoctorRows[j].id : j \in {i \in 1..Len(DoctorRows) :
                 \/ ILikeContains(DoctorRows[i].name, broadStem)
                 \/ ILikeContains(DoctorRows[i].specialty, broadStem)}}, 3)

\* the 200 response of lines 140-151
DetailsResult(finalData) ==
  [NoDet.resp EXCEPT !.statusCode = 200, !.success = TRUE, !.tag = "result",
                     !.count = Cardinality(finalData), !.doctors = finalData]

\* the catch of lines 153-178; an error without a message makes the catch itself
\* throw (error.message.includes), and the platform answers for the function
DetailsCatch(error) ==
  IF ~isTransientError(error) /\ error.message = UNDEF
  THEN [NoDet.resp EXCEPT !.statusCode = 502, !.tag = "crash"]
  ELSE LET c == CatchResponse(error)
       IN  [NoDet.resp EXCEPT !.statusCode = c.statusCode, !.error_type = c.error_type,
                              !.tag = "exception"]

\* configuration, JSON.parse of the body, the query built
DetStart ==
  /\ det.pc \in {"idle", "done"}
  /\ \E r \in DetailsRequests :
       IF ~r.wellFormed
       THEN det' = [NoDet EXCEPT !.pc = "done",
                      !.resp = DetailsCatch([message |-> <<"U", "n", "e", "x", "p", "e", "c",
                                                          "t", "e", "d", " ", "t", "o", "k",
                                                          "e", "n">>, code |-> ""])]
       ELSE det' = [NoDet EXCEPT !.pc = "narrow", !.specialty = r.specialty,
                                 !.doctorName = r.doctorName]
  /\ UNCHANGED <<hvars, rvars, gen, svars, ovars, calc>>

\* faulty variant of NeedsFallback: the result of the narrow search is not looked at
NeedsFallback_Whenever(finalData, specialty, doctorName) ==
  /\ ~Falsy(specialty) \/ ~Falsy(doctorName)
  /\ Len(BroadStem(specialty, doctorName)) >= 2

\* the tests of lines 121 and 123
NeedsFallback(finalData, specialty, doctorName) ==
  /\ finalData = {}
  /\ ~Falsy(specialty) \/ ~Falsy(doctorName)
  /\ Len(BroadStem(specialty, doctorName)) >= 2

\* the narrow search with retry (lines 105-116), then the test for the fallback
DetNarrow ==
  /\ det.pc = "narrow"
  /\ \E res \in RetryResults, data \in NarrowSearch(det.specialty, det.doctorName) :
       IF Failed(res)
       THEN det' = [det EXCEPT !.pc = "done", !.searches = <<"narrow">>,
                               !.failed = TRUE, !.resp = DetailsCatch(res.error)]
       ELSE IF NeedsFallback(data, det.specialty, det.doctorName)
       THEN det' = [det EXCEPT !.pc = "fallback", !.data = data, !.searches = <<"narrow">>]
       ELSE det' = [det EXCEPT !.pc = "done", !.data = data, !.searches = <<"narrow">>,
                               !.resp = DetailsResult(data)]
  /\ UNCHANGED <<hvars, rvars, gen, svars, ovars, calc>>

\* the fallback search with retry (lines 125-136): a failure leaves finalData as
\* it is, an error result gives []
DetFallback ==
  /\ det.pc = "fallback"
  /\ \E res \in RetryResults, data \in BroadSearch(det.specialty, det.doctorName) :
       LET finalData == IF ~res.ok THEN det.data
                        ELSE IF res.value = "error" THEN {}
                        ELSE data
       IN  det' = [det EXCEPT !.pc = "done",
                              !.searches = Append(det.searches, "fallback"),
                              !.failed = Failed(res),
                              !.resp = DetailsResult(finalData)]
  /\ UNCHANGED <<hvars, rvars, gen, svars, ovars, calc>>

NextDetails == DetStart \/ DetNarrow \/ DetFallback

SpecDetails == Init /\ [][NextDetails]_vars

Next ==
  \E p \in Procs :
    \/ BookStart(p)
    \/ BookCheck(p)
    \/ BookInsert(p)
    \/ ReschedStart(p)
    \/ ReschedFind(p)
    \/ ReschedConflict(p)
    \/ ReschedUpdate(p)
    \/ Cancel8Start(p)
    \/ Cancel8Update(p)
    \/ CancelAStart(p)
    \/ CancelAUpdate(p)

Spec == Init /\ [][Next]_vars

(***************************************************************************)
(* Properties.                                                             *)
(***************************************************************************)
Rows == 1..Len(appts)

\* invocation p takes a step
Steps(p) == pc'[p] # pc[p] \/ resp'[p] # resp[p]

\* C1: in every reachable state no two rows with status 'confirmed' share
\* doctor_id, appointment_date and appointment_time, whatever the interleaving
\* of create-booking and reschedule-booking requests.
C1_OneConfirmedPerKey ==
  \A i, j \in Rows :
    (/\ i # j
     /\ appts[i].status = "confirmed"
     /\ appts[j].status = "confirmed")
    => Key(appts[i].doctor_id, appts[i].appointment_date, appts[i].appointment_time)
       # Key(appts[j].doctor_id, appts[j].appointment_date, appts[j].appointment_time)

\* C2: a create-booking that begins right after a create-booking for the same
\* resolved doctor, date and time returned success, with no other request running,
\* is answered 409 with success false by its existence check (500 if that store
\* call itself fails), inserts nothing, and the table holds exactly one confirmed
\* row for the key.
C2_SecondBookingConflicts ==
  [][\A p \in Procs :
       (pc[p] = "bookCheck" /\ Steps(p) /\ RanAfterSameKey(p))
       => /\ pc'[p] = "done"
          /\ appts' = appts
          /\ Cardinality(ConfirmedAt(loc[p].doctor, req[p].date, req[p].time)) = 1
          /\ resp'[p].success = FALSE
          /\ resp'[p].cause # "store"
             => resp'[p].statusCode = 409 /\ resp'[p].tag = "conflict"]_vars

\* a second create-booking for the key just booked was answered 409
C2_Witness ==
  \E p \in Procs :
    /\ pc[p] = "done"
    /\ resp[p].seq
    /\ resp[p].kind = "book"
    /\ resp[p].statusCode = 409
    /\ \E i \in Rows : appts[i].status = "confirmed"

\* C3: a row whose status is 'cancelled' never changes status, date or time in
\* any later step of any request.
C3_CancelledIsTerminal ==
  [][\A i \in Rows :
       appts[i].status = "cancelled"
       => /\ i \in 1..Len(appts')
          /\ appts'[i].status = "cancelled"
          /\ appts'[i].appointment_date = appts[i].appointment_date
          /\ appts'[i].appointment_time = appts[i].appointment_time]_vars

\* C4: the update of a reschedule-booking that returns success leaves the number
\* of rows unchanged and changes one row, the one found in phase 1: that row is
\* 'confirmed' before and after, keeps doctor and patient, and gets the new date
\* and time; every other row is unchanged.
C4_RescheduleInPlace ==
  [][\A p \in Procs :
       (pc[p] = "resUpdate" /\ Steps(p) /\ resp'[p].success)
       => LET id == loc[p].existing
          IN  /\ Len(appts') = Len(appts)
              /\ id \in Rows
              /\ appts[id].status = "confirmed"
              /\ appts'[id] = [appts[id] EXCEPT !.appointment_date = loc[p].newDate,
                                                !.appointment_time = req[p].newTime,
                                                !.updated_at = appts'[id].updated_at]
              /\ \A i \in Rows \ {id} : appts'[i] = appts[i]]_vars

\* the confirmed rows a cancel-booking of p is to cancel: doctor, date, patient fragment
CancelMatches(p) ==
  ConfirmedOfPatient(loc[p].doctor, loc[p].oldDate, Trim(req[p].patientName))

\* C5: a cancel-booking (either handler) for which no confirmed row matches
\* (doctor, date, patient fragment) is answered success false, as not found when
\* no error occurred, and writes nothing; so is a second cancel of the same booking.
C5_CancelNotFound ==
  [][\A p \in Procs :
       (pc[p] \in {"cancel8Update", "cancelAUpdate"} /\ Steps(p) /\ CancelMatches(p) = {})
       => /\ appts' = appts
          /\ resp'[p].success = FALSE
          /\ resp'[p].cause = "" => resp'[p].tag = "not_found"]_vars

\* C6: no step removes a row or changes a row's doctor, patient or phone, and a
\* cancel-booking step changes nothing of a row but its status, to 'cancelled'.
C6_NeverDeleted ==
  [][/\ Len(appts') >= Len(appts)
     /\ \A i \in Rows :
          /\ appts'[i].doctor_id = appts[i].doctor_id
          /\ appts'[i].patient_name = appts[i].patient_name
          /\ appts'[i].phone = appts[i].phone
     /\ \A p \in Procs :
          (pc[p] \in {"cancel8Update", "cancelAUpdate"} /\ Steps(p))
          => /\ Len(appts') = Len(appts)
             /\ \A i \in Rows :
                  \/ appts'[i] = appts[i]
                  \/ appts'[i] = [appts[i] EXCEPT !.status = "cancelled"]]_vars

\* a booking was cancelled and its row is still there
C6_Witness ==
  \E i \in Rows, p \in Procs :
    /\ appts[i].status = "cancelled"
    /\ appts[i].appointment_date = D24
    /\ resp[p].tag = "cancelled"

\* C7: when phase 1 of reschedule-booking finds no confirmed row of the resolved
\* doctor on the old date for the patient fragment, the request ends there with a
\* not-found failure and no write, for every newDate and newTime; the conflict
\* check and the update are reached only through phase 1 having found the row.
C7_ReschedulePhase1 ==
  [][\A p \in Procs :
       /\ (pc[p] = "resFind" /\ Steps(p)
           /\ ConfirmedOfPatient(loc[p].doctor, loc[p].oldDate,
                                 Trim(req[p].patientName)) = {})
          => /\ pc'[p] = "done"
             /\ resp'[p].success = FALSE
             /\ resp'[p].tag = "not_found"
             /\ appts' = appts
       /\ (pc'[p] = "resConflict" /\ Steps(p))
          => /\ pc[p] = "resFind"
             /\ loc'[p].existing \in ConfirmedOfPatient(loc[p].doctor, loc[p].oldDate,
                                                        Trim(req[p].patientName))
       /\ (pc'[p] = "resUpdate" /\ Steps(p))
          => pc[p] = "resConflict" /\ loc'[p].existing = loc[p].existing
       /\ (pc[p] \in {"resFind", "resConflict"} /\ Steps(p)) => appts' = appts]_vars

\* a reschedule-booking was answered not found although the store answered
C7_Witness ==
  \E p \in Procs :
    /\ pc[p] = "done"
    /\ resp[p].kind \in {"rescheduleA", "rescheduleB"}
    /\ resp[p].tag = "not_found"
    /\ resp[p].cause = ""

\* C8: a reschedule-booking whose newDate or newTime is missing never writes and
\* never reaches the conflict check; once phase 1 has found the booking it is
\* answered success with needsNewSlot true.
C8_NoPartialUpdate ==
  [][\A p \in Procs :
       (/\ req[p].kind \in {"rescheduleA", "rescheduleB"}
        /\ Falsy(req[p].newDate) \/ Falsy(req[p].newTime)
        /\ Steps(p))
       => /\ appts' = appts
          /\ pc'[p] = "done"
          /\ (/\ Cardinality(ConfirmedOfPatient(loc[p].doctor, loc[p].oldDate,
                                                Trim(req[p].patientName))) = 1
              /\ resp'[p].cause # "store")
             => resp'[p].needsNewSlot /\ resp'[p].success]_vars

\* the second handler answers needsNewSlot only for a missing newDate or newTime
C8_Witness ==
  \E p \in Procs :
    /\ pc[p] = "done"
    /\ resp[p].kind = "rescheduleB"
    /\ resp[p].needsNewSlot
    /\ resp[p].success
    /\ \E i \in Rows : appts[i].status = "confirmed" /\ appts[i].updated_at = 0

\* C9: when a confirmed row exists at (doctor, newDate, newTime) as phase 2 of
\* reschedule-booking checks for a conflict, the request ends with a failure (a
\* conflict when no error occurred) and the table is unchanged; the update is
\* never reached from a check made while such a row exists.
C9_ConflictCheckGuardsUpdate ==
  [][\A p \in Procs :
       (/\ pc[p] = "resConflict"
        /\ Steps(p)
        /\ ConfirmedAt(loc[p].doctor, loc[p].newDate, req[p].newTime) # {})
       => /\ pc'[p] = "done"
          /\ appts' = appts
          /\ resp'[p].success = FALSE
          /\ resp'[p].cause = "" => resp'[p].tag = "conflict"]_vars

MinutesOf(t) == HourOf(t) * 60 + MinuteOf(t)

\* C14: for working hours start < end, slot generation yields the slots start,
\* start + 30 min, start + 60 min, ... : the first is start, each is exactly 30
\* minutes after the previous one, none is at or after end, and the next one
\* would be (their number is (end - start) / 30 min, rounded up).
C14_SlotsEveryThirtyMinutes ==
  (gen.variant # "none" /\ MinutesOf(gen.start) < MinutesOf(gen.end))
  => /\ \A i \in 1..Len(gen.slots) :
          /\ MinutesOf(gen.slots[i]) = MinutesOf(gen.start) + 30 * (i - 1)
          /\ MinutesOf(gen.slots[i]) < MinutesOf(gen.end)
     /\ MinutesOf(gen.start) + 30 * Len(gen.slots) >= MinutesOf(gen.end)

\* C11: a failure that is not classified transient is never retried: the
\* invocation of query() that failed so is the last one, no delay follows it, and
\* the call has ended with that failure (so an operation that fails so at once is
\* attempted exactly once, with no delay at all).
C11_PermanentNotRetried ==
  \A k \in 1..Len(tries) :
    (Failed(tries[k]) /\ ~isTransientError(tries[k].error))
    => /\ k = Len(tries)
       /\ Len(waits) = k - 1
       /\ rpc \in {"returned", "thrown"}
       /\ result = tries[k]

\* C12: a store failure is never reported as not-found.  Whenever a lookup of
\* list-availability failed (a transient error on every attempt, or an error
\* result from the store), the response is the Unavailable failure (503,
\* DATABASE_TEMPORARILY_UNAVAILABLE): not 404 DOCTOR_NOT_FOUND and not a success.
C12_StoreFailureIsUnavailable ==
  (/\ sresp.tag # "none"
   /\ \/ sresp.cause.value = "error"
      \/ ~sresp.cause.ok /\ isTransientError(sresp.cause.error))
  => /\ ~sresp.success
     /\ sresp.statusCode = 503
     /\ sresp.error_type = "DATABASE_TEMPORARILY_UNAVAILABLE"

\* a timeout error: the code says so, or the message does
IsTimeoutError(e) ==
  \/ e.code = "ETIMEDOUT"
  \/ /\ e.message # UNDEF
     /\ \/ Includes(Lower(e.message), <<"t", "i", "m", "e", "o", "u", "t">>)
        \/ Includes(Lower(e.message), <<"t", "i", "m", "e", "d", "o", "u", "t">>)

\* C13: when a data operation of list-availability failed with a timeout error,
\* the response is the Timeout outcome: HTTP 504 with error_type REQUEST_TIMEOUT.
C13_TimeoutOutcome ==
  (/\ sresp.tag # "none"
   /\ Failed(sresp.cause)
   /\ IsTimeoutError(sresp.cause.error))
  => /\ sresp.statusCode = 504
     /\ sresp.error_type = "REQUEST_TIMEOUT"

\* the times (HH:MM) of the bookings now 'confirmed' for a doctor and a date
ConfirmedTimes(doctor_id, date) ==
  {SubSeq(appts[i].appointment_time, 1, 5) :
     i \in {j \in 1..Len(appts) : /\ appts[j].doctor_id = doctor_id
                                  /\ appts[j].appointment_date = date
                                  /\ appts[j].status = "confirmed"}}

\* C15: every successful list-availability response reflects the store at query
\* time: the times it is computed from are exactly the generated slots of the
\* doctor's working hours minus the times of the bookings that are 'confirmed'
\* for that doctor and date when the response is made.
C15_AvailabilityReflectsStore ==
  [][(spc = "booked" /\ sresp'.success)
     => LET doctor == DoctorRows[CHOOSE j \in 1..Len(DoctorRows) : DoctorRows[j].id = sdoctor]
            slots == generateSlots(doctor.working_hours_start, doctor.working_hours_end)
            held == ConfirmedTimes(sdoctor, sreq.date)
        IN  sresp'.available = SelectSeq(slots, LAMBDA t : t \notin held)]_vars

\* C16: list-availability partitions the available slots into morning (hour <
\* 12), afternoon (12 <= hour < 17) and evening (hour >= 17), every available
\* slot in exactly one of them; without a period a successful response names
\* exactly the non-empty partitions with their sizes (none, with the no-slots
\* signal, when nothing is available); with period morning, afternoon or evening
\* it holds exactly that partition's slots.
C16_PeriodPartition ==
  sresp.success
  => LET a == sresp.available
         part == [p \in {PeriodMorning, PeriodAfternoon, PeriodEvening} |->
                    SelectSeq(a, LAMBDA t :
                      CASE p = PeriodMorning -> HourOf(t) < 12
                        [] p = PeriodAfternoon -> HourOf(t) >= 12 /\ HourOf(t) < 17
                        [] OTHER -> HourOf(t) >= 17)]
         named == {sresp.periods[k].period : k \in 1..Len(sresp.periods)}
     IN  /\ Len(part[PeriodMorning]) + Len(part[PeriodAfternoon]) + Len(part[PeriodEvening])
              = Len(a)
         /\ sresp.tag = "periods"
              => /\ named = {p \in DOMAIN part : part[p] # <<>>}
                 /\ Len(sresp.periods) = Cardinality(named)
                 /\ \A k \in 1..Len(sresp.periods) :
                      sresp.periods[k].count = Len(part[sresp.periods[k].period])
                 /\ sresp.noSlots = (a = <<>>)
                 /\ sresp.statusCode = 200
         /\ (sresp.tag = "slots" /\ sresp.period \in DOMAIN part)
              => sresp.slots = part[sresp.period]

\* a date fully booked: the answer without a period is a success that names no
\* partition and carries the no-slots signal
C16_Witness ==
  /\ sresp.tag = "periods"
  /\ sresp.success
  /\ ~Failed(sresp.cause)
  /\ ConfirmedTimes(1, D24) = {T0900, T0930}
  /\ sresp.periods = <<>>
  /\ sresp.noSlots

\* the message the first reasoning pass returned: the assistant message of the
\* second request when one was sent, aiMessage otherwise
FirstMessage ==
  IF \E k \in 1..Len(olog) : olog[k].pass = 2
  THEN olog[CHOOSE k \in 1..Len(olog) : olog[k].pass = 2].assistant
  ELSE omsg

\* the handler has returned after a first pass that answered without tool calls
TextPath ==
  /\ opc = "done"
  /\ olog # <<>>
  /\ ~FirstMessage.tool_calls.present
  /\ ~(Len(olog) = 1 /\ oresp.tag = "error")

ToolPath == olog # <<>> /\ FirstMessage.tool_calls.present

\* C18: on the tool path the calls are executed one at a time in the order
\* received, each after the result of the one before is recorded; when the
\* handler returns, the requests it sent are the first reasoning call, one
\* dispatch per tool call in call order, and one second reasoning call with the
\* assistant's tool-call message and the n results in call order, result i
\* carrying call i's id; the reply is made from the second pass's text.
C18_ToolPathOrder ==
  ToolPath
  => LET calls == FirstMessage.tool_calls.list
         n == Len(calls)
         dispatched == SelectSeq(olog, LAMBDA e : e.ev = "dispatch")
     IN  /\ Len(dispatched) = Len(oresults)
         /\ \A i \in 1..Len(dispatched) :
              /\ dispatched[i] = DispatchEvent(calls[i], dispatched[i].answer)
              /\ oresults[i].tool_call_id = calls[i].id
         /\ opc = "done"
              => /\ Len(olog) = n + 2
                 /\ olog[1] = ReasonEvent(1, NoMessage, <<>>)
                 /\ \A i \in 1..n : olog[i + 1] = DispatchEvent(calls[i], olog[i + 1].answer)
                 /\ olog[n + 2] = ReasonEvent(2, FirstMessage, oresults)
                 /\ Len(oresults) = n
                 /\ oresp.tag = "reply"
                      => oresp.statusCode = 200 /\ oresp.reply = cleanReply(omsg.content)

\* C19: a failure while executing a capability (the endpoint answers non-2xx,
\* the network call fails, or the argument string is malformed) is that call's
\* tool result: when the handler returns, every call has its result and the
\* second reasoning request, carrying them, has been sent.
C19_CapabilityFailureIsAResult ==
  (/\ ToolPath
   /\ opc = "done"
   /\ \/ \E i \in 1..Len(FirstMessage.tool_calls.list) :
           ~FirstMessage.tool_calls.list[i].wellFormed
      \/ \E i \in 1..Len(oresults) : ~oresults[i].content[2].success)
  => /\ Len(oresults) = Len(FirstMessage.tool_calls.list)
     /\ olog[Len(olog)] = ReasonEvent(2, FirstMessage, oresults)

\* C20: every invocation dispatched to a handler names a capability of the
\* catalog and carries every argument the catalog marks required.
C20_DispatchedCallsAreValid ==
  \A k \in 1..Len(olog) :
    olog[k].ev = "dispatch"
    => /\ olog[k].name \in DOMAIN tools
       /\ tools[olog[k].name] \subseteq FirstMessage.tool_calls.list[olog[k].id].keys

\* the endpoint answers behind the tool results, in call order
AnswersGiven ==
  LET dispatched == SelectSeq(olog, LAMBDA e : e.ev = "dispatch")
  IN  [i \in 1..Len(dispatched) |-> dispatched[i].answer]

\* C21: the tool result handed to the second reasoning pass preserves the
\* capability's outcome kind: the result of a Conflict answer (409) and that of
\* a NotFound answer (404) carry the handler's own message, and the results of
\* a Conflict, a NotFound and an Unavailable (503) answer differ from each other.
C21_OutcomeKindPreserved ==
  (Len(AnswersGiven) = Len(oresults))
  => /\ \A i \in 1..Len(oresults) :
          AnswersGiven[i].status \in {404, 409}
          => oresults[i].content[2].message = AnswersGiven[i].message
     /\ \A i, j \in 1..Len(oresults) :
          (/\ AnswersGiven[i].status \in {404, 409, 503}
           /\ AnswersGiven[j].status \in {404, 409, 503}
           /\ AnswersGiven[i].status # AnswersGiven[j].status)
          => oresults[i].content # oresults[j].content

\* C22: every response of a capability handler carries success and a message,
\* and every failure response (success = false) carries an error_type.
C22_FailureCarriesErrorType ==
  \A p \in Procs :
    resp[p].kind # "none"
    => /\ {"success", "message"} \subseteq resp[p].fields
       /\ ~resp[p].success
            => "error_type" \in resp[p].fields /\ resp[p].error_type # ""

\* C23: create-booking never guesses between providers: a request whose name
\* fragment matches more than one doctor, and is not the full name of exactly
\* one of them, inserts no row.
C23_NoGuessBetweenDoctors ==
  [][\A p \in Procs :
       (pc[p] = "bookInsert" /\ Len(appts') > Len(appts))
       => LET frag == Trim(ReplaceDr(req[p].doctorName))
              full == {j \in 1..Len(DoctorRows) : Lower(DoctorRows[j].name) = Lower(frag)}
          IN  Cardinality(DoctorsILike(frag)) > 1 => Cardinality(full) = 1]_vars

\* C24: honorific tolerance: each handler resolves 'Dr. N' to the same doctors
\* as N, and never to a doctor whose name does not contain N.
C24_HonorificTolerance ==
  calc.fn = "resolve"
  => /\ calc.again = calc.output
     /\ \A d \in calc.again :
          \E j \in 1..Len(DoctorRows) :
            DoctorRows[j].id = d /\ ILikeContains(DoctorRows[j].name, calc.input)

\* C25: find-provider never errors on an empty result.  When its searches
\* answer, the response is 200 success with the doctors found and their count:
\* an empty list and count 0 when neither the narrow nor the broader search
\* matches a doctor.  The broader search runs only after the narrow search
\* returned no row.
C25_EmptyResultIsSuccess ==
  (det.pc = "done" /\ det.searches # <<>>
     /\ ~(det.searches = <<"narrow">> /\ det.failed))
  => /\ det.resp.statusCode = 200 /\ det.resp.success
     /\ det.resp.count = Cardinality(det.resp.doctors)
     /\ (\A j \in 1..Len(DoctorRows) :
           LET row == DoctorRows[j]
               has(col, frag) == Includes(Lower(col), Lower(frag))
               broad == BroadStem(det.specialty, det.doctorName)
           IN  /\ ~(/\ Falsy(det.doctorName) \/ has(row.name, getStem(det.doctorName))
                    /\ Falsy(det.specialty) \/ has(row.specialty, getStem(det.specialty)))
               /\ ~(has(row.name, broad) \/ has(row.specialty, broad)))
        => det.resp.doctors = {} /\ det.resp.count = 0
     /\ "fallback" \in {det.searches[k] : k \in 1..Len(det.searches)} => det.data = {}

\* no doctor is called Zed: both searches ran, the answer is a success with no doctor
C25_Witness ==
  /\ det.pc = "done"
  /\ det.doctorName = <<"Z", "e", "d">>
  /\ det.searches = <<"narrow", "fallback">>
  /\ ~det.failed
  /\ det.resp.statusCode = 200 /\ det.resp.success
  /\ det.resp.doctors = {} /\ det.resp.count = 0

\* text is YYYY-MM-DD and names a day that exists
IsCalendarDate(text) ==
  /\ IsIsoShape(text)
  /\ NumVal(SubSeq(text, 6, 7)) \in 1..12
  /\ NumVal(SubSeq(text, 9, 10)) \in
       1..DaysInMonth(NumVal(SubSeq(text, 1, 4)), NumVal(SubSeq(text, 6, 7)))

\* C26: date normalization returns either a failure or a canonical YYYY-MM-DD
\* text that names an existing calendar date; a bare day number beyond the
\* current month's length, and a slash date whose year has neither 2 nor 4
\* digits, fail.
C26_DateExistsOrFails ==
  calc.fn = "date"
  => /\ calc.output = NULLDATE \/ IsCalendarDate(calc.output)
     /\ (/\ calc.input # UNDEF
         /\ Len(calc.input) \in {1, 2} /\ AllDigits(calc.input)
         /\ NumVal(calc.input) > DaysInMonth(Today.y, Today.m))
        => calc.output = NULLDATE
     /\ (/\ calc.input # UNDEF
         /\ Len(Split(calc.input, "/")) = 3
         /\ Len(Split(calc.input, "/")[3]) \notin {2, 4})
        => calc.output = NULLDATE

\* text is D/M/YY for a day that exists in 20YY: the canonical text of that day
\* (the empty text otherwise)
CanonicalOfSlash(text) ==
  LET parts == Split(text, "/")
  IN  IF /\ text # UNDEF
         /\ Len(parts) = 3
         /\ \A k \in 1..3 : Len(parts[k]) \in {1, 2} /\ AllDigits(parts[k])
         /\ Len(parts[3]) = 2
         /\ NumVal(parts[2]) \in 1..12
         /\ NumVal(parts[1]) \in 1..DaysInMonth(2000 + NumVal(parts[3]), NumVal(parts[2]))
      THEN <<"2", "0">> \o parts[3] \o <<"-">> \o Pad2(NumVal(parts[2]))
             \o <<"-">> \o Pad2(NumVal(parts[1]))
      ELSE <<>>

\* C27: for every valid D/M/YY input, date normalization returns 20YY-MM-DD
\* with day and month padded to two digits; a canonical YYYY-MM-DD text is
\* returned as it is, so normalizing an output again gives the same output.
C27_SlashDateToCanonical ==
  calc.fn = "date"
  => /\ CanonicalOfSlash(calc.input) # <<>>
          => calc.output = CanonicalOfSlash(calc.input) /\ calc.again = calc.output
     /\ (calc.input # UNDEF /\ IsCalendarDate(calc.input))
          => calc.output = calc.input /\ calc.again = calc.input

\* 5/1/26 is normalized to 2026-01-05 by both helpers
C27_Witness ==
  /\ calc.fn = "date"
  /\ calc.input = <<"5", "/", "1", "/", "2", "6">>
  /\ calc.output = <<"2", "0", "2", "6", "-", "0", "1", "-", "0", "5">>
  /\ calc.again = calc.output

\* C28: a failure of the SMS request never fails the booking: when create-booking
\* returns after an SMS request that threw, it returns 200 with success true and
\* the confirmed row it inserted is in the store; an SMS request is made only by
\* an invocation that has just inserted its row.
C28_SmsFailureKeepsBooking ==
  [][\A p \in Procs :
       (pc[p] = "bookInsert" /\ pc'[p] = "done")
       => /\ resp'[p].sms = "failed"
               => /\ resp'[p].statusCode = 200 /\ resp'[p].success
                  /\ appts' = Append(appts, NewRow(p))
                  /\ NewRow(p).status = "confirmed"
          /\ resp'[p].sms \in {"sent", "failed"}
               => /\ appts' = Append(appts, NewRow(p))
                  /\ resp'[p].smsTo = NewRow(p).phone]_vars

\* a booking was answered with success although its SMS request threw, and a
\* confirmed row with the SMS's destination is in the store
C28_Witness ==
  \E p \in Procs :
    /\ resp[p].kind = "book" /\ resp[p].sms = "failed"
    /\ resp[p].statusCode = 200 /\ resp[p].success
    /\ \E i \in 1..Len(appts) :
         appts[i].status = "confirmed" /\ appts[i].phone = resp[p].smsTo

\* C29: for every contact number made of digits with an optional leading '+',
\* the normalized value (the one persisted in the booking and handed to the SMS
\* request) starts with exactly one '+' followed by digits only, and normalizing
\* it again leaves it unchanged.
C29_PhoneNormalForm ==
  calc.fn = "phone"
  => /\ Head(calc.output) = "+"
     /\ Tail(calc.output) # <<>> /\ AllDigits(Tail(calc.output))
     /\ calc.again = calc.output

\* C30: every store call of create-booking, cancel-booking and reschedule-booking
\* goes through the retrying gateway: when one of them reports the failure of a
\* store call, the gateway has run that call, and it gave up either after
\* maxAttempts attempts or on an error that is not transient.
C30_StoreCallsAreRetried ==
  \A p \in Procs :
    resp[p].cause = "store"
    => /\ rpc = "thrown"
       /\ tries # <<>>
       /\ \A i \in 1..Len(tries) : ~tries[i].ok
       /\ Len(tries) = maxAttempts \/ ~isTransientError(tries[Len(tries)].error)

\* C31: a capability request that lacks a required argument is answered by the
\* handler's validation, as a failure, before any call to the store: it is not
\* answered by a return statement behind a store call, nor with the answer of an
\* error (a failed store call, an exception).
C31_MissingArgumentIsInvalidInput ==
  \A p \in Procs :
    resp[p].lacks
    => /\ ~resp[p].success
       /\ resp[p].tag = "missing"
       /\ resp[p].cause = ""

\* C32: the retry helper retries a transient failure however the store signals
\* it: when an attempt that is not the last one fails with a transient error,
\* thrown or carried in the error field of the resolved result, the helper
\* waits and attempts again.
C32_ResolvedErrorIsRetried ==
  [][(/\ rpc = "call"
      /\ tries' = Append(tries, tries'[Len(tries')])
      /\ Failed(tries'[Len(tries')])
      /\ isTransientError(tries'[Len(tries')].error)
      /\ attempt < maxAttempts - 1)
     => rpc' = "sleep"]_vars

\* the error classes named transient: name resolution, connection refused,
\* connection reset, broken pipe (by code or in the message), a generic network
\* failure ('fetch failed', 'network'), a 5xx response
InTransientClass(message, code) ==
  LET msg == IF message = UNDEF THEN <<>> ELSE Lower(message)
  IN  \/ code \in {"ENOTFOUND", "ECONNREFUSED", "ECONNRESET", "EPIPE"}
      \/ \E pat \in {<<"e", "n", "o", "t", "f", "o", "u", "n", "d">>,
                     <<"e", "c", "o", "n", "n", "r", "e", "f", "u", "s", "e", "d">>,
                     <<"e", "c", "o", "n", "n", "r", "e", "s", "e", "t">>,
                     <<"e", "p", "i", "p", "e">>,
                     <<"f", "e", "t", "c", "h", " ", "f", "a", "i", "l", "e", "d">>,
                     <<"n", "e", "t", "w", "o", "r", "k">>} : Includes(msg, pat)
      \/ code \in {"500", "502", "503", "504"}

\* C33: isTransientError answers true for every error of the classes name
\* resolution, connection refused, connection reset, broken pipe, generic
\* network failure and 5xx response, and false for a record that is absent and
\* for an authorization failure.
C33_TransientClasses ==
  calc.fn = "isTransientError"
  => /\ InTransientClass(calc.input, calc.of) => calc.output = <<"true">>
     /\ calc.of \in {"PGRST116", "42501"} => calc.output = <<"false">>

\* C34: list-availability never presents unverified availability: a response
\* made after the booked-appointments lookup failed (it threw on every attempt,
\* or it resolved to an error result) is a failure, not a success.
C34_FailedLookupIsFailure ==
  (sresp.tag \in {"periods", "slots"} /\ Failed(sresp.cause)) => ~sresp.success

\* C35: a single cancel-booking or reschedule-booking request changes at most
\* one booking record, also when the patient-name fragment matches several
\* confirmed bookings of the doctor on the date.
C35_AtMostOneRecordChanged ==
  [][\A p \in Procs :
       (pc[p] \in {"cancel8Update", "cancelAUpdate", "resUpdate"} /\ Steps(p))
       => Cardinality({i \in Rows : appts'[i] # appts[i]}) <= 1]_vars

\* C36: cancellation frees the slot: the existence check of a create-booking
\* whose key holds no confirmed row (cancelled rows or none) lets the request go
\* on to its insert unless the store call fails, the insert adds a confirmed row
\* and keeps the cancelled one; a Conflict answer of create-booking or of
\* reschedule-booking is always about a confirmed row at the key.
C36_CancellationFreesSlot ==
  [][\A p \in Procs :
       /\ (pc[p] = "bookCheck" /\ Steps(p)
             /\ ConfirmedAt(loc[p].doctor, req[p].date, req[p].time) = {})
          => \/ pc'[p] = "bookInsert"
             \/ pc'[p] = "done" /\ resp'[p].cause = "store"
       /\ (pc[p] = "bookInsert" /\ Steps(p) /\ resp'[p].success)
          => /\ appts' = Append(appts, NewRow(p))
             /\ NewRow(p).status = "confirmed"
       /\ (pc[p] = "bookCheck" /\ Steps(p) /\ pc'[p] = "done" /\ resp'[p].tag = "conflict")
          => ConfirmedAt(loc[p].doctor, req[p].date, req[p].time) # {}
       /\ (pc[p] = "resConflict" /\ Steps(p) /\ pc'[p] = "done"
             /\ resp'[p].tag = "conflict")
          => ConfirmedAt(loc[p].doctor, loc[p].newDate, req[p].newTime) # {}]_vars

\* a booking was cancelled, the same doctor, date and time were booked again with
\* success, and the table holds the cancelled row and the confirmed row
C36_Witness ==
  \E p \in Procs, i, j \in Rows :
    /\ i < j
    /\ appts[i].status = "cancelled" /\ appts[j].status = "confirmed"
    /\ appts[i].doctor_id = appts[j].doctor_id
    /\ appts[i].appointment_date = appts[j].appointment_date
    /\ appts[i].appointment_time = appts[j].appointment_time
    /\ pc[p] = "done" /\ resp[p].kind = "book" /\ resp[p].success

\* C37: two cancel-booking requests of the normalizing handler for the same
\* confirmed booking, running at the same time: the update of the one that comes
\* first returns success and leaves the booking 'cancelled' with nothing for the
\* other to match; the update of the other changes nothing and returns the
\* appointment-not-found failure (store failures aside).
C37_ConcurrentCancelOnce ==
  [][\A p \in Procs :
       (pc[p] = "cancel8Update" /\ Steps(p) /\ resp'[p].cause # "store")
       => /\ resp'[p].success <=> CancelMatches(p) # {}
          /\ ~resp'[p].success
               => /\ resp'[p].error_type = "APPOINTMENT_NOT_FOUND"
                  /\ appts' = appts
          /\ \A i \in CancelMatches(p) : appts'[i].status = "cancelled"
          /\ \A q \in Procs \ {p} :
               (/\ pc[q] = "cancel8Update"
                /\ loc[q].doctor = loc[p].doctor /\ loc[q].oldDate = loc[p].oldDate
                /\ req[q].patientName = req[p].patientName)
               => /\ pc'[q] = "cancel8Update"
                  /\ {i \in 1..Len(appts') :
                        /\ appts'[i].doctor_id = loc[q].doctor
                        /\ appts'[i].appointment_date = loc[q].oldDate
                        /\ appts'[i].status = "confirmed"
                        /\ ILikeContains(appts'[i].patient_name,
                                         Trim(req[q].patientName))} = {}]_vars

\* both invocations answered a cancel of the normalizing handler: one with
\* success, the other with appointment-not-found, and the booking is cancelled
C37_Witness ==
  \E p \in Procs, q \in Procs :
    /\ p # q /\ pc[p] = "done" /\ pc[q] = "done"
    /\ resp[p].kind = "cancel8" /\ resp[p].success
    /\ resp[q].kind = "cancel8" /\ resp[q].error_type = "APPOINTMENT_NOT_FOUND"
    /\ Len(appts) = 1 /\ appts[1].status = "cancelled"

\* C38: list-availability, create-booking, reschedule-booking and cancel-booking
\* resolve a doctor name consistently: for the same doctorName over the same
\* doctors they all go on with the same one doctor, or they all fail to resolve.
C38_ConsistentResolution ==
  (calc.fn = "resolve" /\ calc.of \in {"slots", "book", "reschedule", "cancel8"})
  => /\ Cardinality(calc.output) <= 1
     /\ \A h \in {"slots", "book", "reschedule", "cancel8"} :
          ResolveDoctor(h, calc.input) = calc.output

\* C39: every orchestrator request ends with one response, 200 with a reply or
\* 500, when every outbound call is answered; it makes at most two reasoning
\* calls and at most one capability call per tool call received; every retry
\* loop ends, returning or throwing, after at most maxAttempts attempts.
C39_RequestTerminates ==
  /\ [](LET reasons == SelectSeq(olog, LAMBDA e : e.ev = "reason")
            dispatched == SelectSeq(olog, LAMBDA e : e.ev = "dispatch")
        IN  /\ Len(reasons) <= 2
            /\ Len(dispatched) <= IF ToolPath THEN Len(FirstMessage.tool_calls.list) ELSE 0
            /\ \A i, j \in 1..Len(dispatched) : i # j => dispatched[i].id # dispatched[j].id
            /\ Len(tries) <= maxAttempts
            /\ opc = "done" => oresp.statusCode \in {200, 500}
            /\ (opc = "done" /\ oresp.statusCode = 200 /\ oresp.tag = "reply")
                 => oresp.reply # UNDEF)
  /\ (opc \in {"pass1", "tools"}) ~> (opc = "done")
  /\ (rpc \in {"call", "sleep"}) ~> (rpc \in {"returned", "thrown"})

\* a request on the tool path was answered 200 with a reply after two
\* reasoning calls and MaxCalls dispatches
C39_Witness ==
  /\ opc = "done" /\ oresp.statusCode = 200 /\ oresp.reply # UNDEF
  /\ Len(SelectSeq(olog, LAMBDA e : e.ev = "reason")) = 2
  /\ Len(SelectSeq(olog, LAMBDA e : e.ev = "dispatch")) = MaxCalls

====
